---------------------------- MODULE Spec2Model ----------------------------
(***************************************************************************)
(* A model of the masking / chunking / translation / resolution pipeline   *)
(* of LaTeX-Translator (src/src/services/*.ts).                            *)
(*                                                                         *)
(* JavaScript strings are modelled as sequences of one-character strings,  *)
(* so that slicing, splitting and regular-expression scanning are computed *)
(* character by character, as the code computes them.                      *)
(***************************************************************************)
EXTENDS Integers, Sequences, FiniteSets, TLC

(***************************************************************************)
(* Bounds of the model.                                                    *)
(***************************************************************************)
\* longest flat text of the chunker inputs, counted in pieces (see Pieces)
MaxPieces == 5
\* largest maxChunkSize handed to splitTextIntoChunks
MaxChunkSize == 21
\* longest flat text handed to translateLargeText, in characters
MaxTextLen == 4
\* largest maxChunkSize handed to translateLargeText
MaxTlChunkSize == 3

(***************************************************************************)
(* Characters and strings.                                                 *)
(***************************************************************************)
NL == "\n"
SP == " "
DQ == "\""

\* \s of a JavaScript regular expression, over the characters of the model
IsSpace(c) == c \in {SP, NL}

\* [.!?] of the sentence split
IsSentenceEnd(c) == c \in {".", "!", "?"}

RECURSIVE Concat(_)
\* Array.prototype.join('') of a list of strings
Concat(ss) == IF ss = <<>> THEN <<>> ELSE Head(ss) \o Concat(Tail(ss))

RECURSIVE Join(_, _)
\* Array.prototype.join(sep)
Join(ss, sep) ==
  IF ss = <<>> THEN <<>>
  ELSE IF Len(ss) = 1 THEN ss[1]
  ELSE ss[1] \o sep \o Join(Tail(ss), sep)

\* String.prototype.slice(from, to) with 0-based from (inclusive), to (exclusive)
Slice(s, from, to) ==
  SubSeq(s, from + 1, IF to > Len(s) THEN Len(s) ELSE to)

Min(S) == CHOOSE x \in S : \A y \in S : x <= y
Max(S) == CHOOSE x \in S : \A y \in S : x >= y

\* the placeholder token text `<ph id="ID"/>` of an id
TokenOf(id) == <<"<", "p", "h", SP, "i", "d", "=", DQ>> \o id \o <<DQ, "/", ">">>

(***************************************************************************)
(* TranslationService.splitTextIntoChunks                                  *)
(***************************************************************************)
\* text.split(/\n\s*\n/): the places where the separator can start, and for
\* a start p the end of the (greedy) match
ParaSepEnds(t, p) ==
  {q \in (p + 1)..Len(t) :
     t[q] = NL /\ \A k \in (p + 1)..(q - 1) : IsSpace(t[k])}

ParaSepStarts(t) ==
  {p \in 1..Len(t) : t[p] = NL /\ ParaSepEnds(t, p) /= {}}

RECURSIVE SplitParagraphs(_)
SplitParagraphs(t) ==
  IF ParaSepStarts(t) = {} THEN <<t>>
  ELSE LET p == Min(ParaSepStarts(t))
           q == Max(ParaSepEnds(t, p))
       IN  <<SubSeq(t, 1, p - 1)>> \o SplitParagraphs(SubSeq(t, q + 1, Len(t)))

\* paragraph.split(/(?<=[.!?])\s+/): a whitespace run that follows a
\* sentence-ending character; the match takes the whole run
SentSepStarts(t) ==
  {p \in 2..Len(t) : IsSpace(t[p]) /\ IsSentenceEnd(t[p - 1])}

SentSepEnd(t, p) ==
  Max({q \in p..Len(t) : \A k \in p..q : IsSpace(t[k])})

RECURSIVE SplitSentences(_)
SplitSentences(t) ==
  IF SentSepStarts(t) = {} THEN <<t>>
  ELSE LET p == Min(SentSepStarts(t))
           q == SentSepEnd(t, p)
       IN  <<SubSeq(t, 1, p - 1)>> \o SplitSentences(SubSeq(t, q + 1, Len(t)))

RECURSIVE SliceSentence(_, _, _)
\* for (let i = 0; i < sentence.length; i += maxChunkSize)
\*   chunks.push(sentence.slice(i, i + maxChunkSize))
SliceSentence(sentence, i, maxChunkSize) ==
  IF i < Len(sentence)
  THEN <<Slice(sentence, i, i + maxChunkSize)>>
         \o SliceSentence(sentence, i + maxChunkSize, maxChunkSize)
  ELSE <<>>

\* one iteration of the loop over the sentences of an over-long paragraph;
\* st is [chunks, currentChunk]
SentenceStep(st, sentence, maxChunkSize) ==
  IF Len(sentence) > maxChunkSize
  THEN [st EXCEPT !.chunks = @ \o SliceSentence(sentence, 0, maxChunkSize)]
  ELSE IF Len(st.currentChunk) + Len(sentence) + 1 > maxChunkSize
  THEN [chunks |-> Append(st.chunks, st.currentChunk), currentChunk |-> sentence]
  ELSE [st EXCEPT !.currentChunk =
          IF @ /= <<>> THEN @ \o <<SP>> \o sentence ELSE sentence]

RECURSIVE SentenceLoop(_, _, _)
SentenceLoop(st, sentences, maxChunkSize) ==
  IF sentences = <<>> THEN st
  ELSE SentenceLoop(SentenceStep(st, Head(sentences), maxChunkSize),
                    Tail(sentences), maxChunkSize)

\* one iteration of the loop over the paragraphs
ParagraphStep(st, paragraph, maxChunkSize) ==
  IF Len(paragraph) > maxChunkSize
  THEN LET flushed == IF st.currentChunk /= <<>>
                      THEN [chunks |-> Append(st.chunks, st.currentChunk),
                            currentChunk |-> <<>>]
                      ELSE st
       IN  SentenceLoop(flushed, SplitSentences(paragraph), maxChunkSize)
  ELSE IF Len(st.currentChunk) + Len(paragraph) + 2 > maxChunkSize
  THEN [chunks |-> Append(st.chunks, st.currentChunk), currentChunk |-> paragraph]
  ELSE [st EXCEPT !.currentChunk =
          IF @ /= <<>> THEN @ \o <<NL, NL>> \o paragraph ELSE paragraph]

RECURSIVE ParagraphLoop(_, _, _)
ParagraphLoop(st, paragraphs, maxChunkSize) ==
  IF paragraphs = <<>> THEN st
  ELSE ParagraphLoop(ParagraphStep(st, Head(paragraphs), maxChunkSize),
                     Tail(paragraphs), maxChunkSize)

splitTextIntoChunks(t, maxChunkSize) ==
  LET st == ParagraphLoop([chunks |-> <<>>, currentChunk |-> <<>>],
                          SplitParagraphs(t), maxChunkSize)
  IN  IF st.currentChunk /= <<>> THEN Append(st.chunks, st.currentChunk)
      ELSE st.chunks


(***************************************************************************)
(* Document nodes (the AST of ast-gen / unified-latex, as the services     *)
(* read it). Every node is a record                                        *)
(*   [type, text, env, args, content, ck]                                  *)
(* text is a string content (or a macro's name), content an array          *)
(* content, ck says which of the two the node's `content` is ("string",    *)
(* "array" or "none"). An argument is                                      *)
(*   [type, openMark, closeMark, text, content, ck].                       *)
(***************************************************************************)
Node(type, txt, env, args, content, ck) ==
  [type |-> type, text |-> txt, env |-> env, args |-> args,
   content |-> content, ck |-> ck]

Str(s) == Node("string", s, <<>>, <<>>, <<>>, "string")
Whitespace == Node("whitespace", <<>>, <<>>, <<>>, <<>>, "none")
Parbreak == Node("parbreak", <<>>, <<>>, <<>>, <<>>, "none")
Comment(s) == Node("comment", s, <<>>, <<>>, <<>>, "string")
Macro(name, args) == Node("macro", name, <<>>, args, <<>>, "string")
Environment(env, args, content) == Node("environment", <<>>, env, args, content, "array")
MathEnv(env, args, content) == Node("mathenv", <<>>, env, args, content, "array")
InlineMath(content) == Node("inlinemath", <<>>, <<>>, <<>>, content, "array")
DisplayMath(content) == Node("displaymath", <<>>, <<>>, <<>>, content, "array")
Verbatim(env, raw) == Node("verbatim", raw, env, <<>>, <<>>, "string")
Group(content) == Node("group", <<>>, <<>>, <<>>, content, "array")

Argument(open, close, content) ==
  [type |-> "argument", openMark |-> open, closeMark |-> close,
   text |-> <<>>, content |-> content, ck |-> "array"]

\* an argument whose content is a string, not a node list
StringArgument(open, close, s) ==
  [type |-> "argument", openMark |-> open, closeMark |-> close,
   text |-> s, content |-> <<>>, ck |-> "string"]

Braced(content) == Argument(<<"{">>, <<"}">>, content)

\* the pseudo-character that stands for a thrown TypeError: a string that
\* holds it is no string, the computation that built it threw
ERR == "#TypeError"
Threw(s) == \E i \in 1..Len(s) : s[i] = ERR

(***************************************************************************)
(* MaskingService: ids and the registry.                                   *)
(***************************************************************************)
Digits == <<"0", "1", "2", "3", "4", "5", "6", "7", "8", "9">>

RECURSIVE NumToString(_)
\* Number.prototype.toString() of a natural number
NumToString(n) ==
  IF n < 10 THEN <<Digits[n + 1]>>
  ELSE NumToString(n \div 10) \o <<Digits[(n % 10) + 1]>>

RECURSIVE PadStart(_, _, _)
\* String.prototype.padStart(width, pad) for a one-character pad
PadStart(s, width, pad) ==
  IF Len(s) >= width THEN s ELSE PadStart(<<pad>> \o s, width, pad)

\* the width the counter is padded to
IdDigits == 4

\* `${prefix}_${this.maskCounter.toString().padStart(4, '0')}`
FormatId(prefix, counter) ==
  prefix \o <<"_">> \o PadStart(NumToString(counter), IdDigits, "0")

\* generateMaskId with a counter that stays where it is
NextCounterStuck(counter, prefix) == counter

\* the counter value generateMaskId uses for its id: this.maskCounter++
NextCounter(counter, prefix) == counter + 1

\* A session is [maskCounter, maskedNodes, issued]: the two fields of the
\* MaskingService and, for the claims, the ids generateMaskId has handed
\* out (each with the prefix it was asked for) since the fields were last
\* reset. maskedNodes is the Map as the
\* sequence of its entries [id, originalContent] in insertion order.
NewSession == [maskCounter |-> 0, maskedNodes |-> <<>>, issued |-> <<>>]

\* Map.prototype.set
MapSet(m, id, node) ==
  IF \E i \in 1..Len(m) : m[i].id = id
  THEN [i \in 1..Len(m) |->
          IF m[i].id = id THEN [id |-> id, originalContent |-> node] ELSE m[i]]
  ELSE Append(m, [id |-> id, originalContent |-> node])

MapHas(m, id) == \E i \in 1..Len(m) : m[i].id = id

\* Map.prototype.get of a key the map has
MapGet(m, id) == m[CHOOSE i \in 1..Len(m) : m[i].id = id].originalContent

MapKeys(m) == {m[i].id : i \in 1..Len(m)}

\* a registry that counts each prefix on its own
ProtectPerKind(ss, prefix, node) ==
  LET c  == 1 + Cardinality({i \in 1..Len(ss.issued) : ss.issued[i].prefix = prefix})
      id == FormatId(prefix, c)
  IN  [out |-> <<SP>> \o TokenOf(id) \o <<SP>>,
       ss  |-> [maskCounter |-> ss.maskCounter + 1,
                maskedNodes |-> MapSet(ss.maskedNodes, id, node),
                issued |-> Append(ss.issued, [prefix |-> prefix, id |-> id])]]

\* const maskId = this.generateMaskId(prefix);
\* this.maskedNodes.set(maskId, { id: maskId, originalContent: node });
\* return ` <ph id="${maskId}"/> `;
Protect(ss, prefix, node) ==
  LET c  == NextCounter(ss.maskCounter, prefix)
      id == FormatId(prefix, c)
  IN  [out |-> <<SP>> \o TokenOf(id) \o <<SP>>,
       ss  |-> [maskCounter |-> c,
                maskedNodes |-> MapSet(ss.maskedNodes, id, node),
                issued |-> Append(ss.issued, [prefix |-> prefix, id |-> id])]]

\* a step of the walker that registers nothing
Emit(ss, out) == [out |-> out, ss |-> ss]

(***************************************************************************)
(* toString of @unified-latex/unified-latex-util-to-string, for the node   *)
(* kinds the model puts inside mathematics.                                *)
(***************************************************************************)
RECURSIVE UToString(_)
RECURSIVE UArgsToString(_)
UNodeToString(node) ==
  CASE node.type = "string" -> node.text
    [] node.type = "whitespace" -> <<SP>>
    [] node.type = "parbreak" -> <<NL, NL>>
    [] node.type = "macro" -> <<"\\">> \o node.text \o UArgsToString(node.args)
    [] node.type = "group" -> <<"{">> \o UToString(node.content) \o <<"}">>
    [] node.type = "inlinemath" -> <<"$">> \o UToString(node.content) \o <<"$">>
    [] OTHER -> IF node.ck = "array" THEN UToString(node.content)
                ELSE IF node.ck = "string" THEN node.text ELSE <<>>

UToString(nodes) ==
  IF nodes = <<>> THEN <<>>
  ELSE UNodeToString(Head(nodes)) \o UToString(Tail(nodes))

UArgsToString(args) ==
  IF args = <<>> THEN <<>>
  ELSE LET a == Head(args)
       IN  a.openMark
             \o (IF a.ck = "string" THEN a.text ELSE UToString(a.content))
             \o a.closeMark \o UArgsToString(Tail(args))

(***************************************************************************)
(* MaskingService: the walker.                                             *)
(***************************************************************************)
\* the built-in list of processMacro
formattingCommands ==
  {<<"t", "e", "x", "t", "b", "f">>, <<"t", "e", "x", "t", "i", "t">>, <<"t", "e", "x", "t", "t", "t">>, <<"t", "e", "x", "t", "r", "m">>, <<"t", "e", "x", "t", "s", "c">>, <<"e", "m", "p", "h">>,
   <<"u", "n", "d", "e", "r", "l", "i", "n", "e">>, <<"t", "e", "x", "t", "c", "o", "l", "o", "r">>, <<"c", "h", "a", "p", "t", "e", "r">>, <<"s", "e", "c", "t", "i", "o", "n">>, <<"s", "u", "b", "s", "e", "c", "t", "i", "o", "n">>,
   <<"s", "u", "b", "s", "u", "b", "s", "e", "c", "t", "i", "o", "n">>, <<"p", "a", "r", "a", "g", "r", "a", "p", "h">>, <<"s", "u", "b", "p", "a", "r", "a", "g", "r", "a", "p", "h">>}

RECURSIVE nodesToString(_)
RECURSIVE processArgsToString(_)

\* one node of nodesToString's loop
nodeToString(node) ==
  CASE node.type = "string" -> node.text
    [] node.type = "whitespace" -> <<SP>>
    [] node.type = "parbreak" -> <<NL, NL>>
    [] node.type = "comment" -> <<"%">> \o node.text \o <<NL>>
    [] node.type = "macro" -> <<"\\">> \o node.text \o processArgsToString(node.args)
    [] OTHER -> IF node.ck = "string" THEN node.text ELSE <<>>

nodesToString(nodes) ==
  IF nodes = <<>> THEN <<>>
  ELSE nodeToString(Head(nodes)) \o nodesToString(Tail(nodes))

\* this.nodesToString(arg.content || []): a non-empty string content is
\* iterated character by character, and `'content' in node` of a character
\* throws a TypeError
ArgContentToString(arg) ==
  IF arg.ck = "string"
  THEN IF arg.text = <<>> THEN <<>> ELSE <<ERR>>
  ELSE nodesToString(arg.content)

processArgsToString(args) ==
  IF args = <<>> THEN <<>>
  ELSE LET arg == Head(args)
       IN  (IF arg.type /= "argument" THEN <<>>
            ELSE arg.openMark \o ArgContentToString(arg) \o arg.closeMark)
             \o processArgsToString(Tail(args))

\* a processMacro that looks at the formatting commands first
processMacroFormattingFirst(opts, ss, node) ==
  IF node.text \in formattingCommands
  THEN Protect(ss, <<"F", "M", "T", "_", "C", "M", "D">>, node)
  ELSE IF node.text \in opts.maskCommands
  THEN Protect(ss, <<"C", "M", "D">>, node)
  ELSE Emit(ss, <<"\\">> \o node.text \o processArgsToString(node.args))

processMacro(opts, ss, node) ==
  IF node.text \in opts.maskCommands
  THEN Protect(ss, <<"C", "M", "D">>, node)
  ELSE IF node.text \in formattingCommands
  THEN Protect(ss, <<"F", "M", "T", "_", "C", "M", "D">>, node)
  ELSE Emit(ss, <<"\\">> \o node.text \o processArgsToString(node.args))

\* a processInlineMath that goes by maskDisplayMath
processInlineMathByDisplay(opts, ss, node) ==
  IF opts.maskDisplayMath
  THEN Protect(ss, <<"I", "M", "A", "T", "H">>, node)
  ELSE Emit(ss, <<"$">> \o UToString(node.content) \o <<"$">>)

processInlineMath(opts, ss, node) ==
  IF opts.maskInlineMath
  THEN Protect(ss, <<"I", "M", "A", "T", "H">>, node)
  ELSE Emit(ss, <<"$">> \o UToString(node.content) \o <<"$">>)

processDisplayMath(opts, ss, node) ==
  IF opts.maskDisplayMath
  THEN Protect(ss, <<"D", "M", "A", "T", "H">>, node)
  ELSE Emit(ss, <<"\\", "[">> \o UToString(node.content) \o <<"\\", "]">>)

processComment(opts, ss, node) ==
  IF opts.maskComments
  THEN Protect(ss, <<"C", "O", "M", "M", "E", "N", "T">>, node)
  ELSE Emit(ss, <<>>)

processVerbatim(opts, ss, node) == Protect(ss, <<"V", "E", "R", "B", "A", "T", "I", "M">>, node)

RECURSIVE processNodes(_, _, _)

\* a processEnvironment that registers the block and walks into it as well
processEnvironmentInside(opts, ss, node) ==
  LET envName == node.env
      isRegularEnvToMask == envName \in opts.regularEnvironments
      isMathEnvToMask == envName \in opts.mathEnvironments /\ opts.maskDisplayMath
      kind == IF isMathEnvToMask THEN <<"M", "A", "T", "H", "_", "E", "N", "V">> ELSE <<"E", "N", "V">>
      inner(s0) == IF node.ck = "array"
                   THEN processNodes(opts, s0, node.content)
                   ELSE Emit(s0, <<>>)
  IN  IF envName = <<>> THEN Emit(ss, <<>>)
      ELSE IF isRegularEnvToMask \/ isMathEnvToMask
      THEN LET own == Protect(ss, kind, node)
               sub == inner(own.ss)
           IN  [out |-> own.out \o sub.out, ss |-> sub.ss]
      ELSE [out |-> <<"\\", "b", "e", "g", "i", "n", "{">> \o envName \o <<"}">>
                      \o processArgsToString(node.args)
                      \o inner(ss).out
                      \o <<"\\", "e", "n", "d", "{">> \o envName \o <<"}">>,
            ss |-> inner(ss).ss]

\* a processEnvironment that registers the math environments whatever
\* maskDisplayMath says
processEnvironmentMathAlways(opts, ss, node) ==
  LET envName == node.env
      isRegularEnvToMask == envName \in opts.regularEnvironments
      isMathEnvToMask == envName \in opts.mathEnvironments
  IN  IF envName = <<>> THEN Emit(ss, <<>>)
      ELSE IF isRegularEnvToMask \/ isMathEnvToMask
      THEN Protect(ss, IF isMathEnvToMask THEN <<"M", "A", "T", "H", "_", "E", "N", "V">> ELSE <<"E", "N", "V">>, node)
      ELSE LET inner == IF node.ck = "array"
                        THEN processNodes(opts, ss, node.content)
                        ELSE Emit(ss, <<>>)
           IN  [out |-> <<"\\", "b", "e", "g", "i", "n", "{">> \o envName \o <<"}">>
                          \o processArgsToString(node.args)
                          \o inner.out
                          \o <<"\\", "e", "n", "d", "{">> \o envName \o <<"}">>,
                ss |-> inner.ss]

processEnvironment(opts, ss, node) ==
  LET envName == node.env
      isRegularEnvToMask == envName \in opts.regularEnvironments
      isMathEnvToMask == envName \in opts.mathEnvironments /\ opts.maskDisplayMath
  IN  IF envName = <<>> THEN Emit(ss, <<>>)
      ELSE IF isRegularEnvToMask \/ isMathEnvToMask
      THEN Protect(ss, IF isMathEnvToMask THEN <<"M", "A", "T", "H", "_", "E", "N", "V">> ELSE <<"E", "N", "V">>, node)
      ELSE LET inner == IF node.ck = "array"
                        THEN processNodes(opts, ss, node.content)
                        ELSE Emit(ss, <<>>)
           IN  [out |-> <<"\\", "b", "e", "g", "i", "n", "{">> \o envName \o <<"}">>
                          \o processArgsToString(node.args)
                          \o inner.out
                          \o <<"\\", "e", "n", "d", "{">> \o envName \o <<"}">>,
                ss |-> inner.ss]

\* one node of processNodes' loop
processNode(opts, ss, node) ==
  CASE node.type = "string" -> Emit(ss, node.text)
    [] node.type = "whitespace" -> Emit(ss, <<SP>>)
    [] node.type = "parbreak" -> Emit(ss, <<NL, NL>>)
    [] node.type = "comment" -> processComment(opts, ss, node)
    [] node.type = "macro" -> processMacro(opts, ss, node)
    [] node.type \in {"environment", "mathenv"} -> processEnvironment(opts, ss, node)
    [] node.type \in {"inlinemath", "math.inline"} -> processInlineMath(opts, ss, node)
    [] node.type \in {"displaymath", "math.display"} -> processDisplayMath(opts, ss, node)
    [] node.type = "verbatim" -> processVerbatim(opts, ss, node)
    [] OTHER -> IF node.ck = "array" THEN processNodes(opts, ss, node.content)
                ELSE Emit(ss, <<>>)

\* a walk that registers the nodes of the rest of the list before the first
processNodesRestFirst(opts, ss, nodes) ==
  IF nodes = <<>> THEN Emit(ss, <<>>)
  ELSE LET rest  == processNodes(opts, ss, Tail(nodes))
           first == processNode(opts, rest.ss, Head(nodes))
       IN  [out |-> first.out \o rest.out, ss |-> first.ss]

processNodes(opts, ss, nodes) ==
  IF nodes = <<>> THEN Emit(ss, <<>>)
  ELSE LET first == processNode(opts, ss, Head(nodes))
           rest  == processNodes(opts, first.ss, Tail(nodes))
       IN  [out |-> first.out \o rest.out, ss |-> rest.ss]

\* A file of a ProjectAST is [filePath, root, content]: root says whether
\* fileAst.ast is a 'root' node with a content.
maskFileAst(opts, ss, fileAst) ==
  IF fileAst.root THEN processNodes(opts, ss, fileAst.content)
  ELSE Emit(ss, <<>>)

RECURSIVE MaskFiles(_, _, _, _)
\* the loop of maskAst over ast.files, from the text so far
MaskFiles(opts, ss, files, maskedText) ==
  IF files = <<>> THEN [out |-> maskedText, ss |-> ss]
  ELSE LET f == maskFileAst(opts, ss, Head(files))
           sep == IF maskedText /= <<>> /\ f.out /= <<>> THEN <<NL, NL>> ELSE <<>>
       IN  MaskFiles(opts, f.ss, Tail(files), maskedText \o sep \o f.out)

\* a maskAst that keeps the fields of the service as they are
ResetSessionKeep(ss) == ss

\* what maskAst makes of the service's fields before it walks the files:
\* this.maskedNodes = new Map(); this.maskCounter = 0
ResetSession(ss) == NewSession

\* maskAst: the masked text and the session it leaves in the service's
\* fields; the map it returns is that session's maskedNodes
maskAst(opts, ss, ast) == MaskFiles(opts, ResetSession(ss), ast.files, <<>>)

(***************************************************************************)
(* ReplacementService: the serializer.                                     *)
(***************************************************************************)
RECURSIVE nodesToLatex(_)
RECURSIVE argsToLatex(_)

\* the environments environmentToLatex starts on a new line
alignEnvironments == {<<"a", "l", "i", "g", "n">>, <<"a", "l", "i", "g", "n", "*">>, <<"a", "l", "i", "g", "n", "e", "d">>}

\* the macros macroToLatex writes without a backslash
mathSpecialChars == {<<"^">>, <<"_">>}

\* this.nodesToLatex(arg.content || []): a non-empty string content has no
\* map method, and the call throws a TypeError
ArgContentToLatex(arg) ==
  IF arg.ck = "string"
  THEN IF arg.text = <<>> THEN <<>> ELSE <<ERR>>
  ELSE nodesToLatex(arg.content)

macroToLatex(node) ==
  IF node.text \in mathSpecialChars
  THEN node.text \o argsToLatex(node.args)
  ELSE <<"\\">> \o node.text \o argsToLatex(node.args)

environmentToLatex(node) ==
  LET envName == node.env
  IN  IF envName = <<>> THEN <<>>
      ELSE <<"\\", "b", "e", "g", "i", "n", "{">> \o envName \o <<"}">> \o argsToLatex(node.args)
             \o (IF node.ck = "array"
                 THEN (IF envName \in alignEnvironments THEN <<NL>> ELSE <<>>)
                        \o nodesToLatex(node.content)
                 ELSE <<>>)
             \o <<"\\", "e", "n", "d", "{">> \o envName \o <<"}">>

inlineMathToLatex(node) ==
  <<"$">> \o (IF node.ck = "array" THEN UToString(node.content)
              ELSE IF node.ck = "string" THEN node.text ELSE <<>>) \o <<"$">>

displayMathToLatex(node) ==
  <<"\\", "[">> \o (IF node.ck = "array" THEN UToString(node.content)
             ELSE IF node.ck = "string" THEN node.text ELSE <<>>) \o <<"\\", "]">>

nodeToLatex(node) ==
  CASE node.type = "root" ->
         IF node.ck = "array" THEN nodesToLatex(node.content) ELSE <<>>
    [] node.type = "string" -> node.text
    [] node.type = "whitespace" -> <<SP>>
    [] node.type = "parbreak" -> <<NL, NL>>
    [] node.type = "comment" ->
         IF node.ck = "string" THEN <<"%">> \o node.text \o <<NL>> ELSE <<>>
    [] node.type = "macro" -> macroToLatex(node)
    [] node.type \in {"environment", "mathenv"} -> environmentToLatex(node)
    [] node.type = "verbatim" ->
         <<"\\", "b", "e", "g", "i", "n", "{">> \o node.env \o <<"}">> \o argsToLatex(node.args)
           \o node.text \o <<"\\", "e", "n", "d", "{">> \o node.env \o <<"}">>
    [] node.type = "inlinemath" -> inlineMathToLatex(node)
    [] node.type = "displaymath" -> displayMathToLatex(node)
    [] node.type = "group" ->
         IF node.ck = "array" THEN <<"{">> \o nodesToLatex(node.content) \o <<"}">>
         ELSE <<"{", "}">>
    [] node.type = "math.inline" -> inlineMathToLatex(node)
    [] node.type = "math.display" -> displayMathToLatex(node)
    [] OTHER -> IF node.ck = "array" THEN nodesToLatex(node.content)
                ELSE IF node.ck = "string" THEN node.text ELSE <<>>

nodesToLatex(nodes) ==
  IF nodes = <<>> THEN <<>>
  ELSE nodeToLatex(Head(nodes)) \o nodesToLatex(Tail(nodes))

argsToLatex(args) ==
  IF args = <<>> THEN <<>>
  ELSE LET arg == Head(args)
       IN  (IF arg.type = "argument"
            THEN arg.openMark \o ArgContentToLatex(arg) \o arg.closeMark
            ELSE <<>>)
             \o argsToLatex(Tail(args))

(***************************************************************************)
(* ReplacementService.replaceTranslatedText: the scan for                  *)
(*   /<ph\s+id\s*=\s*"([A-Z_]+_\d+)"\s*\/>/g                               *)
(***************************************************************************)
\* the character at place i, or "" past the ends
At(t, i) == IF i \in 1..Len(t) THEN t[i] ELSE ""

UpperOrUnderscore ==
  {"A", "B", "C", "D", "E", "F", "G", "H", "I", "J", "K", "L", "M", "N", "O",
   "P", "Q", "R", "S", "T", "U", "V", "W", "X", "Y", "Z", "_"}

IsIdChar(c) == c \in UpperOrUnderscore
IsDigit(c) == \E i \in 1..Len(Digits) : Digits[i] = c

RECURSIVE SkipSpaces(_, _)
\* the first place from p on that holds no whitespace
SkipSpaces(t, p) == IF IsSpace(At(t, p)) THEN SkipSpaces(t, p + 1) ELSE p

RECURSIVE SkipIdChars(_, _)
SkipIdChars(t, p) == IF IsIdChar(At(t, p)) THEN SkipIdChars(t, p + 1) ELSE p

RECURSIVE SkipDigits(_, _)
SkipDigits(t, p) == IF IsDigit(At(t, p)) THEN SkipDigits(t, p + 1) ELSE p

\* whether the expression matches at place p, and if so where the match
\* ends and the id it captures
MatchAt(t, p) ==
  LET afterPh == p + 3
      idKw    == SkipSpaces(t, afterPh)
      eq      == SkipSpaces(t, idKw + 2)
      quote   == SkipSpaces(t, eq + 1)
      idFrom  == quote + 1
      numFrom == SkipIdChars(t, idFrom)
      numTo   == SkipDigits(t, numFrom)
      slash   == SkipSpaces(t, numTo + 1)
      ok      == /\ At(t, p) = "<" /\ At(t, p + 1) = "p" /\ At(t, p + 2) = "h"
                 /\ idKw > afterPh
                 /\ At(t, idKw) = "i" /\ At(t, idKw + 1) = "d"
                 /\ At(t, eq) = "="
                 /\ At(t, quote) = DQ
                 /\ numFrom - idFrom >= 2 /\ At(t, numFrom - 1) = "_"
                 /\ numTo > numFrom
                 /\ At(t, numTo) = DQ
                 /\ At(t, slash) = "/" /\ At(t, slash + 1) = ">"
  IN  IF ok THEN [ok |-> TRUE, end |-> slash + 1,
                  maskId |-> SubSeq(t, idFrom, numTo - 1)]
      ELSE [ok |-> FALSE, end |-> p, maskId |-> <<>>]

\* a replace callback that drops the token of an unknown id
ReplaceMatchDrop(map, match, maskId) ==
  IF ~MapHas(map, maskId) THEN <<>>
  ELSE nodeToLatex(MapGet(map, maskId))

\* the callback of replace: what a match is replaced by
ReplaceMatch(map, match, maskId) ==
  IF ~MapHas(map, maskId) THEN match
  ELSE nodeToLatex(MapGet(map, maskId))

RECURSIVE ReplaceFrom(_, _, _)
\* String.prototype.replace with a global expression, from place p on
ReplaceFrom(map, t, p) ==
  IF p > Len(t) THEN <<>>
  ELSE LET m == MatchAt(t, p)
       IN  IF m.ok
           THEN ReplaceMatch(map, SubSeq(t, p, m.end), m.maskId)
                  \o ReplaceFrom(map, t, m.end + 1)
           ELSE <<t[p]>> \o ReplaceFrom(map, t, p + 1)

\* a replacement that scans its own result once more
replaceTranslatedTextRescanned(map, translated) ==
  ReplaceFrom(map, ReplaceFrom(map, translated, 1), 1)

replaceTranslatedText(map, translated) == ReplaceFrom(map, translated, 1)

RECURSIVE MatchedIdsFrom(_, _)
\* the ids of the tokens the expression finds in t from place p on, in order
MatchedIdsFrom(t, p) ==
  IF p > Len(t) THEN <<>>
  ELSE LET m == MatchAt(t, p)
       IN  IF m.ok THEN <<m.maskId>> \o MatchedIdsFrom(t, m.end + 1)
           ELSE MatchedIdsFrom(t, p + 1)

TokenIds(t) == MatchedIdsFrom(t, 1)

(***************************************************************************)
(* State.                                                                  *)
(***************************************************************************)
VARIABLES
  \* --- TranslationService: one translateLargeText call ---
  text,              \* the flat text handed in
  maxChunkSize,      \* its maxChunkSize argument
  logPath,           \* whether a logPath argument is given
  chunks,            \* const chunks = this.splitTextIntoChunks(...)
  idx,               \* the loop variable i, 1-based (0 before the loop)
  translatedChunks,  \* const translatedChunks
  pc,                \* where the call stands
  outstanding,       \* translateText calls awaited and not yet settled
  submitted,         \* the chunk indices handed to translateText, in order
  outcomes,          \* how each translateText call settled, in call order
  tlResult,          \* the value translateLargeText returned
  tlError,           \* what translateLargeText threw ("" when nothing)
  \* --- one MaskingService and the ReplacementService made from its result ---
  options,           \* this.options of the MaskingService
  session,           \* its fields maskCounter and maskedNodes (see NewSession)
  maskCalls,         \* how many maskAst calls this MaskingService has served
  curAst,            \* the argument of the last maskAst call
  maskedText,        \* the maskedText that call returned
  maskedNodesMap,    \* the maskedNodesMap that call returned
  maskThrew,         \* whether that call threw instead
  mpc,               \* "idle", "masked", "translated" or "replaced"
  segs,              \* the pieces the translator put its answer together from
  translatedText,    \* the text handed to replaceTranslatedText
  replaced,          \* what replaceTranslatedText built
  replaceThrew       \* whether it threw

tlVars == <<text, maxChunkSize, logPath, chunks, idx, translatedChunks, pc,
            outstanding, submitted, outcomes, tlResult, tlError>>

maskVars == <<options, session, maskCalls, curAst, maskedText, maskedNodesMap, maskThrew,
              mpc, segs, translatedText, replaced, replaceThrew>>

\* the id and the token the chunker inputs carry
SampleId == <<"C", "M", "D", "_", "0", "0", "0", "1">>
SampleToken == TokenOf(SampleId)

\* the pieces the chunker's input texts are put together from
Pieces == {<<"a">>, <<".">>, <<SP>>, <<NL>>, SampleToken}

ChunkTexts ==
  {Concat(ps) : ps \in UNION {[1..n -> Pieces] : n \in 0..MaxPieces}}

TlChars == {"a", ".", SP, NL}

TlTexts == UNION {[1..n -> TlChars] : n \in 0..MaxTextLen}

(***************************************************************************)
(* Inputs of the masking service: options, nodes and ASTs.                 *)
(***************************************************************************)
\* more bounds: the longest node list of a file, and of a file that is
\* taken through translation and replacement; the longest translator answer,
\* in pieces
MaxNodes == 2
MaxResNodes == 1
MaxSegs == 2
\* the most maskAst calls one MaskingService serves
MaxCalls == 2

Opt(lists, inl, disp, comm) ==
  [regularEnvironments |-> lists.regularEnvironments,
   mathEnvironments |-> lists.mathEnvironments,
   maskCommands |-> lists.maskCommands,
   maskInlineMath |-> inl, maskDisplayMath |-> disp, maskComments |-> comm]

OptionLists ==
  {[regularEnvironments |-> {<<"f", "i", "g", "u", "r", "e">>}, mathEnvironments |-> {<<"a", "l", "i", "g", "n">>},
    maskCommands |-> {<<"c", "i", "t", "e">>}],
   [regularEnvironments |-> {}, mathEnvironments |-> {},
    maskCommands |-> {<<"c", "i", "t", "e">>, <<"t", "e", "x", "t", "b", "f">>}]}

OptionSets ==
  {Opt(l, i, d, c) : l \in OptionLists, i \in BOOLEAN, d \in BOOLEAN, c \in BOOLEAN}

MathX == InlineMath(<<Str(<<"x">>)>>)
CiteK == Macro(<<"c", "i", "t", "e">>, <<Braced(<<Str(<<"k">>)>>)>>)

\* the nodes the files of the model are put together from
NodePool ==
  {Str(<<"a">>),
   Whitespace,
   Parbreak,
   Comment(<<"c">>),
   MathX,
   DisplayMath(<<Str(<<"y">>)>>),
   CiteK,
   Macro(<<"t", "e", "x", "t", "b", "f">>, <<Braced(<<Str(<<"b">>)>>)>>),
   Macro(<<"f", "o", "o">>, <<Braced(<<Str(<<"t">>), MathX, CiteK>>)>>),
   Macro(<<"f", "o", "o">>, <<StringArgument(<<"[">>, <<"]">>, <<"s">>)>>),
   Environment(<<"f", "i", "g", "u", "r", "e">>, <<>>, <<MathX, Comment(<<"c">>), CiteK>>),
   Environment(<<"c", "e", "n", "t", "e", "r">>, <<>>, <<Str(<<"t">>), MathX>>),
   MathEnv(<<"a", "l", "i", "g", "n">>, <<>>, <<Str(<<"y">>)>>),
   Verbatim(<<"v", "e", "r", "b", "a", "t", "i", "m">>, <<"v">>),
   Node("other", <<>>, <<>>, <<>>, <<Str(<<"o">>), MathX>>, "array"),
   Node("other", <<"s">>, <<>>, <<>>, <<>>, "string")}

\* the nodes that are combined freely into longer lists
CorePool == {Str(<<"a">>), MathX, CiteK, Comment(<<"c">>)}

CoreForests(n) == UNION {[1..k -> CorePool] : k \in 0..n}

\* \begin{align}{g}y\end{align}
AlignWithArg ==
  MathEnv(<<"a", "l", "i", "g", "n">>, <<Braced(<<Str(<<"g">>)>>)>>, <<Str(<<"y">>)>>)

\* \foo{t%d}: a comment in the argument of a command
FooComment == Macro(<<"f", "o", "o">>, <<Braced(<<Str(<<"t">>), Comment(<<"d">>)>>)>>)

\* \cite[s], the content of the argument being the string s
CiteString == Macro(<<"c", "i", "t", "e">>, <<StringArgument(<<"[">>, <<"]">>, <<"s">>)>>)

\* nodes of a type the walker does not know: one with a node list for its
\* content, one with a string, one without content
OtherArray == Node("other", <<>>, <<>>, <<>>, <<Str(<<"o">>), MathX>>, "array")
OtherString == Node("other", <<"s">>, <<>>, <<>>, <<>>, "string")
OtherBare == Node("other", <<>>, <<>>, <<>>, <<>>, "none")

\* more nodes that stand alone in a file
RuleNodes == {AlignWithArg, FooComment, CiteString, OtherBare}

Forests(n) == CoreForests(n) \cup {<<nd>> : nd \in NodePool \cup RuleNodes}

File(name, content) == [filePath |-> name, root |-> TRUE, content |-> content]

\* the file of the specification's scenario A: Hello $x+y=1$ world.
ScenarioA ==
  [files |-> <<File("a.tex",
      <<Str(<<"H", "e", "l", "l", "o">>), Whitespace,
        InlineMath(<<Str(<<"x", "+", "y", "=", "1">>)>>),
        Whitespace, Str(<<"w", "o", "r", "l", "d", ".">>)>>)>>]

\* \begin{figure}$q$%d\cite{j}\end{figure}
FigureFlat ==
  Environment(<<"f", "i", "g", "u", "r", "e">>, <<>>,
              <<InlineMath(<<Str(<<"q">>)>>), Comment(<<"d">>),
                Macro(<<"c", "i", "t", "e">>, <<Braced(<<Str(<<"j">>)>>)>>)>>)

\* \begin{figure}\begin{figure}$q$\end{figure}\[q\]\textbf{q}\end{figure}
FigureNested ==
  Environment(<<"f", "i", "g", "u", "r", "e">>, <<>>,
              <<Environment(<<"f", "i", "g", "u", "r", "e">>, <<>>,
                            <<InlineMath(<<Str(<<"q">>)>>)>>),
                DisplayMath(<<Str(<<"q">>)>>),
                Macro(<<"t", "e", "x", "t", "b", "f">>, <<Braced(<<Str(<<"q">>)>>)>>)>>)

\* \begin{figure}\end{figure}
FigureEmpty == Environment(<<"f", "i", "g", "u", "r", "e">>, <<>>, <<>>)

Blocks == {FigureFlat, FigureNested, FigureEmpty}

\* \section{u$w$}, \emph{u\cite{j}}, \textbf{b}
FormattingMacros ==
  {Macro(<<"s", "e", "c", "t", "i", "o", "n">>,
         <<Braced(<<Str(<<"u">>), InlineMath(<<Str(<<"w">>)>>)>>)>>),
   Macro(<<"e", "m", "p", "h">>,
         <<Braced(<<Str(<<"u">>),
                    Macro(<<"c", "i", "t", "e">>, <<Braced(<<Str(<<"j">>)>>)>>)>>)>>),
   Macro(<<"t", "e", "x", "t", "b", "f">>, <<Braced(<<Str(<<"b">>)>>)>>)}

\* files in which a block or a formatting command stands between an inline
\* math and a \cite
ContextAsts ==
  {[files |-> <<File("a.tex", <<MathX, nd, CiteK>>)>>] :
     nd \in Blocks \cup FormattingMacros}

\* the ProjectASTs handed to maskAst: one file, or two short files
Asts ==
  {[files |-> <<File("a.tex", f)>>] : f \in Forests(MaxNodes)}
    \cup {[files |-> <<File("a.tex", f), File("b.tex", g)>>] :
            f \in CoreForests(1), g \in CoreForests(1)}
    \cup ContextAsts

\* \cite{<ph id="CMD_0001"/>}: a command whose argument is text of the shape
\* of a token, with the id the command itself is registered under
CiteToken == Macro(<<"c", "i", "t", "e">>, <<Braced(<<Str(TokenOf(<<"C", "M", "D", "_", "0", "0", "0", "1">>))>>)>>)

\* the ProjectASTs that are taken through translation and replacement
ResAsts ==
  {[files |-> <<File("a.tex", f)>>] : f \in Forests(MaxResNodes)}
    \cup {ScenarioA, [files |-> <<File("a.tex", <<CiteToken>>)>>]}

\* an id no session hands out
UnknownId == <<"X", "_", "9">>

\* the translated text's part not touched by these actions
TlIdle ==
  /\ text = <<>>
  /\ maxChunkSize = 1
  /\ logPath = FALSE
  /\ chunks = <<>>
  /\ idx = 0
  /\ translatedChunks = <<>>
  /\ pc = "idle"
  /\ outstanding = 0
  /\ submitted = <<>>
  /\ outcomes = <<>>
  /\ tlResult = <<>>
  /\ tlError = ""

\* the masking service's part when only the translation service acts
MaskIdle ==
  /\ options = Opt(CHOOSE l \in OptionLists : l.regularEnvironments = {},
                   FALSE, FALSE, FALSE)
  /\ session = NewSession
  /\ maskCalls = 0
  /\ curAst = [files |-> <<>>]
  /\ maskedText = <<>>
  /\ maskedNodesMap = <<>>
  /\ maskThrew = FALSE
  /\ mpc = "idle"
  /\ segs = <<>>
  /\ translatedText = <<>>
  /\ replaced = <<>>
  /\ replaceThrew = FALSE

(***************************************************************************)
(* State of one LatexTranslatorService and of its translate() call.        *)
(***************************************************************************)
VARIABLES
  callerBypass,     \* options.bypassLLMTranslation of the constructor's argument
  configBypass,     \* translation.bypassLLMTranslation of the configuration file
  bypass,           \* this.options.bypassLLMTranslation
  callerSave,       \* options.saveIntermediateFiles of the constructor's argument
  configSave,       \* translation.saveIntermediateFiles of the configuration file
  saveFiles,        \* this.options.saveIntermediateFiles
  inputIsFile,      \* whether inputPath is a single file
  originalAst,      \* this.originalAst: [files, rootFilePath] ("" for none)
  orderedFiles,     \* orderedFiles of processMultiFileProject
  fi,               \* the place of the loop in orderedFiles (0 outside the loop)
  ppc,              \* where translate() stands
  results,          \* results of processMultiFileProject: the filePath of each entry
  outputs,          \* the files written to translatedDir: [filePath, data]
  processedFiles,   \* this.processedFiles
  failures,         \* the errors caught per file: [filePath, stage]
  trError,          \* the stage whose error translate() rejected with ("" for none)
  trReturned,       \* whether translate() returned a path
  trace,            \* the stages gone through so far: [filePath, stage]
  llmCalls,         \* the translateText calls made so far
  chunkings,        \* the splitTextIntoChunks calls made so far
  mapObjects,       \* the Map objects the MaskingService has made, by their content
  serviceMap,       \* the one this.maskedNodes of the MaskingService refers to
  mapRef,           \* the one the local maskedNodesMap refers to (0 for none)
  fileMaps          \* the maps returned so far: [filePath, ref, map]

VARIABLES
  \* --- LatexUtils.addChineseSupport, applied to a document again and again ---
  chDocument,       \* the document handed to the first application
  chResults         \* what each application returned, in order

chVars == <<chDocument, chResults>>

projVars == <<callerBypass, configBypass, bypass, callerSave, configSave, saveFiles, inputIsFile, originalAst,
              orderedFiles, fi, ppc, results, outputs, processedFiles, failures,
              trError, trReturned, trace, llmCalls, chunkings, mapObjects,
              serviceMap, mapRef, fileMaps>>

vars == <<tlVars, maskVars, projVars, chVars>>

\* the most files a project of the model has
MaxFiles == 3

\* maxChunkSize of the translateLargeText calls of the service
ProjectChunkSize == 4000

ProjPaths == <<"a.tex", "b.tex", "c.tex", "d.tex">>

\* what the files of a project hold: a file that is masked and resolved, a
\* file whose masking throws (an unprotected command with a string for an
\* argument's content), a file whose resolving throws (a protected command
\* with such an argument)
GoodContent == <<CiteK, Str(<<"a">>), MathX>>
MaskFailsContent == <<Macro(<<"f", "o", "o">>, <<StringArgument(<<"[">>, <<"]">>, <<"s">>)>>)>>
ResolveFailsContent == <<Macro(<<"c", "i", "t", "e">>, <<StringArgument(<<"[">>, <<"]">>, <<"s">>)>>)>>

ProjContents == {GoodContent, MaskFailsContent, ResolveFailsContent}

\* the file lists of the projects: 0 to MaxFiles files with different paths
ProjFileLists ==
  UNION {{[i \in 1..n |-> File(ProjPaths[i], c[i])] : c \in [1..n -> ProjContents]} :
           n \in 0..MaxFiles}

\* ast.rootFilePath: none, the second file, the third file
ProjRoots == {"", ProjPaths[2], ProjPaths[3]}

\* the masking options of the service
ProjOptions ==
  Opt(CHOOSE l \in OptionLists : l.regularEnvironments /= {}, TRUE, TRUE, FALSE)

\* the values an optional boolean setting is given as
OptionalBool == {"undefined", "true", "false"}

\* nothing of a LatexTranslatorService is in use
\* no document has been handed to addChineseSupport
ChIdle ==
  /\ chDocument = <<>>
  /\ chResults = <<>>

ProjIdle ==
  /\ callerBypass = "undefined"
  /\ configBypass = "undefined"
  /\ bypass = FALSE
  /\ callerSave = "undefined"
  /\ configSave = "undefined"
  /\ saveFiles = FALSE
  /\ inputIsFile = FALSE
  /\ originalAst = [files |-> <<>>, rootFilePath |-> ""]
  /\ orderedFiles = <<>>
  /\ fi = 0
  /\ ppc = "idle"
  /\ results = <<>>
  /\ outputs = <<>>
  /\ processedFiles = {}
  /\ failures = <<>>
  /\ trError = ""
  /\ trReturned = FALSE
  /\ trace = <<>>
  /\ llmCalls = 0
  /\ chunkings = 0
  /\ mapObjects = <<>>
  /\ serviceMap = 0
  /\ mapRef = 0
  /\ fileMaps = <<>>

(***************************************************************************)
(* The chunker alone: splitTextIntoChunks applied to a text.               *)
(***************************************************************************)
InitChunk ==
  /\ text \in ChunkTexts
  /\ maxChunkSize \in 1..MaxChunkSize
  /\ logPath = FALSE
  /\ chunks = <<>>
  /\ idx = 0
  /\ translatedChunks = <<>>
  /\ pc = "input"
  /\ outstanding = 0
  /\ submitted = <<>>
  /\ outcomes = <<>>
  /\ tlResult = <<>>
  /\ tlError = ""
  /\ MaskIdle
  /\ ProjIdle
  /\ ChIdle

SplitText ==
  /\ pc = "input"
  /\ chunks' = splitTextIntoChunks(text, maxChunkSize)
  /\ pc' = "split"
  /\ UNCHANGED <<chVars, projVars, maskVars, text, maxChunkSize, logPath, idx, translatedChunks,
                 outstanding, submitted, outcomes, tlResult, tlError>>

NextChunk == SplitText

SpecChunk == InitChunk /\ [][NextChunk]_vars


(***************************************************************************)
(* TranslationService.translateLargeText, one step per await.              *)
(***************************************************************************)
RECURSIVE TrimStart(_)
TrimStart(s) == IF s /= <<>> /\ IsSpace(Head(s)) THEN TrimStart(Tail(s)) ELSE s

RECURSIVE TrimEnd(_)
TrimEnd(s) ==
  IF s /= <<>> /\ IsSpace(s[Len(s)]) THEN TrimEnd(SubSeq(s, 1, Len(s) - 1)) ELSE s

\* String.prototype.trim
Trim(s) == TrimEnd(TrimStart(s))

\* what the model lets the language model answer for a chunk: the chunk
\* itself, or some other text
Replies(chunk) == {chunk, <<SP, "z">>}

\* translateText: response.choices[0]?.message?.content?.trim() || ''
translateText(reply) == Trim(reply)

\* a catch block that passes the translator's error on
OnTranslateErrorRethrow(chunk) == [rethrow |-> TRUE, part |-> chunk]

\* the catch block of the loop: the part pushed for the chunk, and whether
\* the error leaves translateLargeText
OnTranslateError(chunk) == [rethrow |-> FALSE, part |-> chunk]

\* a loop that hands chunk i to the translator once more
AfterChunkAgain(i, n) == IF i < n THEN "submit" ELSE "log"

\* where the loop goes after chunk i has been pushed
AfterChunk(i, n) == IF i < n THEN "delay" ELSE "log"

InitTl ==
  /\ text \in TlTexts
  /\ maxChunkSize \in 1..MaxTlChunkSize
  /\ logPath \in BOOLEAN
  /\ chunks = <<>>
  /\ idx = 0
  /\ translatedChunks = <<>>
  /\ pc = "start"
  /\ outstanding = 0
  /\ submitted = <<>>
  /\ outcomes = <<>>
  /\ tlResult = <<>>
  /\ tlError = ""
  /\ MaskIdle
  /\ ProjIdle
  /\ ChIdle

\* const chunks = this.splitTextIntoChunks(text, maxChunkSize); i = 0
TlStart ==
  /\ pc = "start"
  /\ chunks' = splitTextIntoChunks(text, maxChunkSize)
  /\ idx' = 1
  /\ pc' = IF chunks' = <<>> THEN "log" ELSE "submit"
  /\ UNCHANGED <<chVars, projVars, maskVars, text, maxChunkSize, logPath, translatedChunks, outstanding,
                 submitted, outcomes, tlResult, tlError>>

\* await this.translateText(chunk, ...): the call is made
TlSubmit ==
  /\ pc = "submit"
  /\ submitted' = Append(submitted, idx)
  /\ outstanding' = outstanding + 1
  /\ pc' = "await"
  /\ UNCHANGED <<chVars, projVars, maskVars, text, maxChunkSize, logPath, chunks, idx, translatedChunks,
                 outcomes, tlResult, tlError>>

\* the call returns: translatedChunks.push(translatedChunk)
TlReturn ==
  /\ pc = "await"
  /\ \E reply \in Replies(chunks[idx]) :
       /\ translatedChunks' = Append(translatedChunks, translateText(reply))
       /\ outcomes' = Append(outcomes,
                             [threw |-> FALSE, value |-> translateText(reply)])
  /\ outstanding' = outstanding - 1
  /\ pc' = AfterChunk(idx, Len(chunks))
  /\ UNCHANGED <<chVars, projVars, maskVars, text, maxChunkSize, logPath, chunks, idx, submitted,
                 tlResult, tlError>>

\* the call throws: the catch block
TlThrow ==
  /\ pc = "await"
  /\ outcomes' = Append(outcomes, [threw |-> TRUE, value |-> <<>>])
  /\ outstanding' = outstanding - 1
  /\ LET c == OnTranslateError(chunks[idx])
     IN  IF c.rethrow
         THEN /\ pc' = "thrown"
              /\ tlError' = "translateText"
              /\ UNCHANGED translatedChunks
         ELSE /\ translatedChunks' = Append(translatedChunks, c.part)
              /\ pc' = AfterChunk(idx, Len(chunks))
              /\ UNCHANGED tlError
  /\ UNCHANGED <<chVars, projVars, maskVars, text, maxChunkSize, logPath, chunks, idx, submitted, tlResult>>

\* if (i < chunks.length - 1) await the 500 ms delay; then i++
TlDelay ==
  /\ pc = "delay"
  /\ idx' = idx + 1
  /\ pc' = "submit"
  /\ UNCHANGED <<chVars, projVars, maskVars, text, maxChunkSize, logPath, chunks, translatedChunks,
                 outstanding, submitted, outcomes, tlResult, tlError>>

\* if (logPath) await this.fileService.writeFile(...) rejects
TlLogFails ==
  /\ pc = "log"
  /\ logPath
  /\ pc' = "thrown"
  /\ tlError' = "writeFile"
  /\ UNCHANGED <<chVars, projVars, maskVars, text, maxChunkSize, logPath, chunks, idx, translatedChunks,
                 outstanding, submitted, outcomes, tlResult>>

\* the log, if any, is written; return translatedChunks.join('\n\n')
TlFinish ==
  /\ pc = "log"
  /\ tlResult' = Join(translatedChunks, <<NL, NL>>)
  /\ pc' = "done"
  /\ UNCHANGED <<chVars, projVars, maskVars, text, maxChunkSize, logPath, chunks, idx, translatedChunks,
                 outstanding, submitted, outcomes, tlError>>

NextTl ==
  \/ TlStart
  \/ TlSubmit
  \/ TlReturn
  \/ TlThrow
  \/ TlDelay
  \/ TlLogFails
  \/ TlFinish

SpecTl == InitTl /\ [][NextTl]_vars


(***************************************************************************)
(* LatexUtils.addChineseSupport.                                           *)
(***************************************************************************)
BS == "\\"

\* the place after the literal lit if t holds it at place p, else 0
Expect(t, p, lit) ==
  IF p > 0 /\ p + Len(lit) - 1 <= Len(t) /\ SubSeq(t, p, p + Len(lit) - 1) = lit
  THEN p + Len(lit)
  ELSE 0

RECURSIVE SkipIn(_, _, _)
\* the place after the longest run of characters of set from place p on
SkipIn(t, p, set) ==
  IF p = 0 THEN 0
  ELSE IF p <= Len(t) /\ t[p] \in set THEN SkipIn(t, p + 1, set)
  ELSE p

RECURSIVE SkipNotIn(_, _, _)
\* the place after the longest run of characters not of set from place p on
SkipNotIn(t, p, set) ==
  IF p = 0 THEN 0
  ELSE IF p <= Len(t) /\ t[p] \notin set THEN SkipNotIn(t, p + 1, set)
  ELSE p

\* (?:\\s*\\([^\\)]*\\))? as the source spells it in the expression literal:
\* a backslash, any number of s, a backslash, characters that are neither a
\* backslash nor ")", a backslash
BracketPart(t, p) ==
  Expect(t, SkipNotIn(t, Expect(t, SkipIn(t, Expect(t, p, <<BS>>), {"s"}), <<BS>>),
                      {BS, ")"}),
         <<BS>>)

\* \\s*(?:\\{[^\\}]*?\\bctex\\b[^\\}]*?\\}) in the same spelling
UsePackageTail(t, p) ==
  LET open  == Expect(t, SkipIn(t, Expect(t, p, <<BS>>), {"s"}), <<BS, "{">>)
      word  == Expect(t, SkipNotIn(t, open, {BS, "}"}), <<"\\", "b", "c", "t", "e", "x", "\\", "b">>)
  IN  Expect(t, SkipNotIn(t, word, {BS, "}"}), <<BS, "}">>)

\* \\s*(?:\\{\\s*(?:ctexart|ctexrep|ctexbook)\\s*\\}) in the same spelling
DocClassTail(t, p) ==
  LET open == SkipIn(t, Expect(t, SkipIn(t, Expect(t, p, <<BS>>), {"s"}), <<BS, "{", BS>>),
                     {"s"})
      after(name) == Expect(t, SkipIn(t, Expect(t, Expect(t, open, name), <<BS>>), {"s"}),
                            <<BS, "}">>)
  IN  IF after(<<"c", "t", "e", "x", "a", "r", "t">>) > 0 THEN after(<<"c", "t", "e", "x", "a", "r", "t">>)
      ELSE IF after(<<"c", "t", "e", "x", "r", "e", "p">>) > 0 THEN after(<<"c", "t", "e", "x", "r", "e", "p">>)
      ELSE after(<<"c", "t", "e", "x", "b", "o", "o", "k">>)

\* usePackageCtexPattern.test(texContent)
usePackageCtexPattern(t) ==
  \E p \in 1..Len(t) :
    LET q == Expect(t, p, <<"\\", "u", "s", "e", "p", "a", "c", "k", "a", "g", "e">>)
    IN  q > 0 /\ (UsePackageTail(t, BracketPart(t, q)) > 0 \/ UsePackageTail(t, q) > 0)

\* docClassCtexPattern.test(texContent)
docClassCtexPattern(t) ==
  \E p \in 1..Len(t) :
    LET q == Expect(t, p, <<"\\", "d", "o", "c", "u", "m", "e", "n", "t", "c", "l", "a", "s", "s">>)
    IN  q > 0 /\ (DocClassTail(t, BracketPart(t, q)) > 0 \/ DocClassTail(t, q) > 0)

RECURSIVE SplitLines(_)
\* texContent.split('\n')
SplitLines(t) ==
  IF \A i \in 1..Len(t) : t[i] /= NL THEN <<t>>
  ELSE LET k == Min({i \in 1..Len(t) : t[i] = NL})
       IN  <<SubSeq(t, 1, k - 1)>> \o SplitLines(SubSeq(t, k + 1, Len(t)))

\* line.startsWith(prefix) of the line without its leading whitespace
LineStartsWith(line, prefix) == Expect(TrimStart(line), 1, prefix) > 0

\* the last line that starts with prefix (0 when there is none): the value
\* the loop over the lines leaves in docClassIndex and lastUsePackageIndex,
\* counted from 1
LastLineWith(lines, prefix) ==
  Max({0} \cup {i \in 1..Len(lines) : LineStartsWith(lines[i], prefix)})

ctexPackageLine == <<"\\", "u", "s", "e", "p", "a", "c", "k", "a", "g", "e", "[", "U", "T", "F", "8", "]", "{", "c", "t", "e", "x", "}">>

\* the line number after which the package line is inserted
insertionLineNumber(docClassIndex, lastUsePackageIndex) ==
  IF lastUsePackageIndex /= 0 /\ lastUsePackageIndex > docClassIndex
  THEN lastUsePackageIndex
  ELSE docClassIndex

\* lines.splice(insertionLineNumber, 0, ctexPackageLine)
SpliceLine(lines, after, line) ==
  SubSeq(lines, 1, after) \o <<line>> \o SubSeq(lines, after + 1, Len(lines))

addChineseSupport(texContent) ==
  IF usePackageCtexPattern(texContent) \/ docClassCtexPattern(texContent)
  THEN texContent
  ELSE LET lines == SplitLines(texContent)
           docClassIndex == LastLineWith(lines, <<"\\", "d", "o", "c", "u", "m", "e", "n", "t", "c", "l", "a", "s", "s">>)
           lastUsePackageIndex == LastLineWith(lines, <<"\\", "u", "s", "e", "p", "a", "c", "k", "a", "g", "e">>)
       IN  IF docClassIndex = 0 THEN texContent
           ELSE Join(SpliceLine(lines,
                                insertionLineNumber(docClassIndex, lastUsePackageIndex),
                                ctexPackageLine),
                     <<NL>>)

(***************************************************************************)
(* addChineseSupport applied to a document, and to what it returned.       *)
(***************************************************************************)
\* the most lines of a document, and the most applications
MaxLines == 3
MaxApplications == 2

\* a line that the two expressions match as they are spelled in the
\* source: \usepackage\\{\bctex\b\}
LiteralCtexLine == <<"\\", "u", "s", "e", "p", "a", "c", "k", "a", "g", "e", BS, BS, "{", BS, "b", "c", "t", "e", "x", BS, "b", BS, "}">>

\* the lines the documents are put together from
DocLines ==
  {<<"\\", "d", "o", "c", "u", "m", "e", "n", "t", "c", "l", "a", "s", "s", "{", "a", "r", "t", "i", "c", "l", "e", "}">>,
   <<"\\", "d", "o", "c", "u", "m", "e", "n", "t", "c", "l", "a", "s", "s", "{", "c", "t", "e", "x", "a", "r", "t", "}">>,
   <<"\\", "u", "s", "e", "p", "a", "c", "k", "a", "g", "e", "{", "c", "t", "e", "x", "}">>,
   <<"\\", "u", "s", "e", "p", "a", "c", "k", "a", "g", "e", "[", "U", "T", "F", "8", "]", "{", "c", "t", "e", "x", "}">>,
   <<"\\", "u", "s", "e", "p", "a", "c", "k", "a", "g", "e", "{", "a", "}">>,
   <<" ", "\\", "u", "s", "e", "p", "a", "c", "k", "a", "g", "e", "{", "a", "}">>,
   <<"t", "e", "x", "t">>,
   LiteralCtexLine}

\* the documents: 1 to MaxLines lines joined by newlines
Documents ==
  UNION {{Join(ls, <<NL>>) : ls \in [1..n -> DocLines]} : n \in 1..MaxLines}

InitChinese ==
  /\ TlIdle
  /\ MaskIdle
  /\ ProjIdle
  /\ chDocument \in Documents
  /\ chResults = <<>>

\* const enhancedText = LatexUtils.addChineseSupport(...), of the document
\* or of the text the application before returned
ApplyChineseSupport ==
  /\ Len(chResults) < MaxApplications
  /\ chResults' = Append(chResults,
                         addChineseSupport(IF chResults = <<>> THEN chDocument
                                           ELSE chResults[Len(chResults)]))
  /\ UNCHANGED <<tlVars, maskVars, projVars, chDocument>>

NextChinese == ApplyChineseSupport

SpecChinese == InitChinese /\ [][NextChinese]_vars

(***************************************************************************)
(* One MaskingService: the constructor and maskAst.                        *)
(***************************************************************************)
InitMask ==
  /\ TlIdle
  /\ ProjIdle
  /\ ChIdle
  /\ options \in OptionSets
  /\ session = NewSession
  /\ maskCalls = 0
  /\ curAst = [files |-> <<>>]
  /\ maskedText = <<>>
  /\ maskedNodesMap = <<>>
  /\ maskThrew = FALSE
  /\ mpc = "idle"
  /\ segs = <<>>
  /\ translatedText = <<>>
  /\ replaced = <<>>
  /\ replaceThrew = FALSE

\* await this.maskingService.maskAst(ast)
MaskCall(ast) ==
  LET r == maskAst(options, session, ast)
  IN  /\ curAst' = ast
      /\ session' = r.ss
      /\ maskCalls' = maskCalls + 1
      /\ IF Threw(r.out)
         THEN /\ maskThrew' = TRUE
              /\ maskedText' = <<>>
              /\ maskedNodesMap' = <<>>
         ELSE /\ maskThrew' = FALSE
              /\ maskedText' = r.out
              /\ maskedNodesMap' = r.ss.maskedNodes
      /\ mpc' = "masked"
      /\ segs' = <<>>
      /\ translatedText' = <<>>
      /\ replaced' = <<>>
      /\ replaceThrew' = FALSE
      /\ UNCHANGED <<chVars, projVars, tlVars, options>>

\* maskAst is called on the service, whatever was masked before
MaskAny ==
  /\ maskCalls < MaxCalls
  /\ \E ast \in Asts : MaskCall(ast)

\* new MaskingService(options): the fields start empty
NewInstance ==
  /\ mpc /= "idle"
  /\ session' = NewSession
  /\ maskCalls' = 0
  /\ mpc' = "idle"
  /\ UNCHANGED <<chVars, projVars, tlVars, options, curAst, maskedText, maskedNodesMap, maskThrew,
                 segs, translatedText, replaced, replaceThrew>>

NextMask == MaskAny \/ NewInstance

SpecMask == InitMask /\ [][NextMask]_vars

(***************************************************************************)
(* Mask, translate, replace: a file is masked, some text comes back from   *)
(* the translator, and a ReplacementService made from the returned map     *)
(* replaces the tokens in it.                                              *)
(***************************************************************************)
\* a piece of a translator answer: plain text, or a token with an id
Lit(s) == [tok |-> FALSE, s |-> s]
Tok(id) == [tok |-> TRUE, s |-> id]

SegText(seg) == IF seg.tok THEN TokenOf(seg.s) ELSE seg.s

RECURSIVE SegsText(_)
SegsText(ss) == IF ss = <<>> THEN <<>> ELSE SegText(Head(ss)) \o SegsText(Tail(ss))

\* the pieces an answer can be put together from, given the returned map
SegKinds(map) ==
  {Lit(<<"a">>), Lit(<<SP>>), Tok(UnknownId)} \cup {Tok(id) : id \in MapKeys(map)}

MaskOne ==
  /\ mpc = "idle"
  /\ \E ast \in ResAsts : MaskCall(ast)

\* the translation is the masked text itself (identity translation, or
\* bypassed translation)
TranslateIdentity ==
  /\ mpc = "masked"
  /\ ~maskThrew
  /\ translatedText' = maskedText
  /\ segs' = <<>>
  /\ mpc' = "translated"
  /\ UNCHANGED <<chVars, projVars, tlVars, options, session, maskCalls, curAst, maskedText, maskedNodesMap,
                 maskThrew, replaced, replaceThrew>>

\* the translator answers with some text of its own making
TranslateAny ==
  /\ mpc = "masked"
  /\ ~maskThrew
  /\ \E n \in 1..MaxSegs : \E ss \in [1..n -> SegKinds(maskedNodesMap)] :
       /\ segs' = ss
       /\ translatedText' = SegsText(ss)
  /\ mpc' = "translated"
  /\ UNCHANGED <<chVars, projVars, tlVars, options, session, maskCalls, curAst, maskedText, maskedNodesMap,
                 maskThrew, replaced, replaceThrew>>

\* new ReplacementService(maskedNodesMap).replaceTranslatedText(translatedText)
Replace ==
  /\ mpc = "translated"
  /\ LET out == replaceTranslatedText(maskedNodesMap, translatedText)
     IN  /\ replaced' = out
         /\ replaceThrew' = Threw(out)
  /\ mpc' = "replaced"
  /\ UNCHANGED <<chVars, projVars, tlVars, options, session, maskCalls, curAst, maskedText, maskedNodesMap,
                 maskThrew, segs, translatedText>>

NextResolve == MaskOne \/ TranslateIdentity \/ TranslateAny \/ Replace

SpecResolve == InitMask /\ [][NextResolve]_vars

(***************************************************************************)
(* LatexTranslatorService: the constructor and one translate() call.       *)
(***************************************************************************)
\* ConfigService.get(path, defaultValue): config.get throws for a path the
\* configuration has not, and the default is returned
ConfigGet(value, defaultValue) == IF value = "undefined" THEN defaultValue ELSE value

\* bypassLLMTranslation of getDefaultTranslatorOptions()
getDefaultBypass(configValue) == ConfigGet(configValue, "true")

\* bypassLLMTranslation of this.options, as the constructor merges it
MergedBypass(callerValue, configValue) ==
  IF callerValue /= "undefined" THEN callerValue ELSE getDefaultBypass(configValue)

\* a list of files that is processed as it stands
OrderFilesAsListed(a) == a.files

\* orderedFiles: the root file, when the list has it, is moved to the front
OrderFiles(a) ==
  LET fs == a.files
      at == {i \in 1..Len(fs) : fs[i].filePath = a.rootFilePath}
  IN  IF a.rootFilePath = "" \/ at = {} THEN fs
      ELSE LET k == Min(at)
           IN  <<fs[k]>> \o SubSeq(fs, 1, k - 1) \o SubSeq(fs, k + 1, Len(fs))

\* a maskAst that empties the Map object it has instead of making a new one
MapOfResetCleared(current, n) == current

\* the Map object this.maskedNodes refers to after maskAst has reset the
\* fields, n objects having been made before: a new one
MapOfReset(current, n) == n + 1

\* the objects after the map of the call has been filled
StoreMap(objs, ref, map) ==
  IF ref > Len(objs) THEN Append(objs, map) ELSE [objs EXCEPT ![ref] = map]

\* how the translator deals with a chunk
Behaviours == {"echo", "other", "throw"}

\* the part translateLargeText pushes for a chunk
PartOf(chunk, b) ==
  IF b = "throw" THEN OnTranslateError(chunk).part
  ELSE translateText(IF b = "echo" THEN chunk ELSE <<SP, "z">>)

\* saveIntermediateFiles of getDefaultTranslatorOptions()
getDefaultSave(configValue) == ConfigGet(configValue, "true")

\* saveIntermediateFiles of this.options, as the constructor merges it
MergedSave(callerValue, configValue) ==
  IF callerValue /= "undefined" THEN callerValue ELSE getDefaultSave(configValue)

projSetup == <<callerBypass, configBypass, bypass, callerSave, configSave, saveFiles,
               inputIsFile, originalAst>>

\* the fields of the service that are the same before and after the
\* constructor, and those a translate() call starts from
ServiceAtRest ==
  /\ TlIdle
  /\ ChIdle
  /\ options = ProjOptions
  /\ session = NewSession
  /\ maskCalls = 0
  /\ curAst = [files |-> <<>>]
  /\ maskedText = <<>>
  /\ maskedNodesMap = <<>>
  /\ maskThrew = FALSE
  /\ mpc = "idle"
  /\ segs = <<>>
  /\ translatedText = <<>>
  /\ replaced = <<>>
  /\ replaceThrew = FALSE
  /\ orderedFiles = <<>>
  /\ fi = 0
  /\ results = <<>>
  /\ outputs = <<>>
  /\ processedFiles = {}
  /\ failures = <<>>
  /\ trError = ""
  /\ trReturned = FALSE
  /\ trace = <<>>
  /\ llmCalls = 0
  /\ chunkings = 0
  /\ mapRef = 0
  /\ fileMaps = <<>>

\* before new LatexTranslatorService(options): what the caller and the
\* configuration file say
InitConstruct ==
  /\ ServiceAtRest
  /\ callerBypass \in OptionalBool
  /\ configBypass \in OptionalBool
  /\ callerSave \in OptionalBool
  /\ configSave \in OptionalBool
  /\ bypass = FALSE
  /\ saveFiles = FALSE
  /\ inputIsFile \in BOOLEAN
  /\ originalAst = [files |-> <<>>, rootFilePath |-> ""]
  /\ ppc = "unbuilt"
  /\ mapObjects = <<>>
  /\ serviceMap = 0

\* the constructor: the options are merged, the services are made
Construct ==
  /\ ppc = "unbuilt"
  /\ bypass' = (MergedBypass(callerBypass, configBypass) = "true")
  /\ saveFiles' = (MergedSave(callerSave, configSave) = "true")
  /\ mapObjects' = <<<<>>>>
  /\ serviceMap' = 1
  /\ ppc' = "new"
  /\ UNCHANGED <<chVars, tlVars, maskVars, callerBypass, configBypass, callerSave, configSave,
                 inputIsFile, originalAst, orderedFiles, fi, results, outputs,
                 processedFiles, failures, trError, trReturned, trace, llmCalls,
                 chunkings, mapRef, fileMaps>>

NextConstruct == Construct

SpecConstruct == InitConstruct /\ [][NextConstruct]_vars

\* a constructed service, about to be asked to translate a project; the
\* caller has said whether to bypass the translator and to save the
\* intermediate files
InitProject ==
  /\ ServiceAtRest
  /\ callerBypass \in {"true", "false"}
  /\ configBypass = "undefined"
  /\ bypass = (MergedBypass(callerBypass, configBypass) = "true")
  /\ callerSave \in {"true", "false"}
  /\ configSave = "undefined"
  /\ saveFiles = (MergedSave(callerSave, configSave) = "true")
  /\ inputIsFile \in BOOLEAN
  /\ originalAst \in {[files |-> f, rootFilePath |-> r] : f \in ProjFileLists, r \in ProjRoots}
  /\ ppc = "new"
  /\ mapObjects = <<<<>>>>
  /\ serviceMap = 1

\* the ProjectAST handed to maskAst, and the name the file goes by
CurAst ==
  IF inputIsFile THEN [files |-> originalAst.files]
  ELSE [files |-> <<orderedFiles[fi]>>]

CurName == IF inputIsFile THEN "input" ELSE orderedFiles[fi].filePath

Stage(name, stage, ok) == [filePath |-> name, stage |-> stage, ok |-> ok]

\* translate() up to the call of processSingleFile or processMultiFileProject
TrPrepare ==
  /\ ppc = "new"
  /\ IF inputIsFile
     THEN /\ ppc' = "mask"
          /\ UNCHANGED <<orderedFiles, fi>>
     ELSE IF Len(originalAst.files) = 0
     THEN /\ ppc' = "copy"
          /\ UNCHANGED <<orderedFiles, fi>>
     ELSE /\ orderedFiles' = OrderFiles(originalAst)
          /\ fi' = 1
          /\ ppc' = "loop"
  /\ UNCHANGED <<chVars, tlVars, maskVars, projSetup, results, outputs, processedFiles,
                 failures, trError, trReturned, trace, llmCalls, chunkings,
                 mapObjects, serviceMap, mapRef, fileMaps>>

\* stat, setupProjectDirectories, parse, copyOriginalProject or
\* saveAstAsJson rejects
TrPrepareFails ==
  /\ ppc = "new"
  /\ ppc' = "rejected"
  /\ trError' = "prepare"
  /\ UNCHANGED <<chVars, tlVars, maskVars, projSetup, orderedFiles, fi, results, outputs,
                 processedFiles, failures, trReturned, trace, llmCalls, chunkings,
                 mapObjects, serviceMap, mapRef, fileMaps>>

\* for (const fileAst of orderedFiles): the next file, unless processed
PmNextFile ==
  /\ ppc = "loop"
  /\ IF fi > Len(orderedFiles)
     THEN /\ ppc' = "copy"
          /\ fi' = 0
          /\ UNCHANGED trace
     ELSE IF orderedFiles[fi].filePath \in processedFiles
     THEN /\ fi' = fi + 1
          /\ UNCHANGED <<ppc, trace>>
     ELSE /\ ppc' = "mask"
          /\ trace' = Append(trace, Stage(CurName, "start", TRUE))
          /\ UNCHANGED fi
  /\ UNCHANGED <<chVars, tlVars, maskVars, projSetup, orderedFiles, results, outputs,
                 processedFiles, failures, trError, trReturned, llmCalls, chunkings,
                 mapObjects, serviceMap, mapRef, fileMaps>>

\* a failure that always leaves translate()
FileFailsAborts(stage) ==
  /\ trace' = Append(trace, Stage(CurName, stage, FALSE))
  /\ ppc' = "rejected"
  /\ trError' = stage
  /\ UNCHANGED <<fi, failures>>

\* a failure that is always caught, and the run goes on
FileFailsSwallowed(stage) ==
  /\ trace' = Append(trace, Stage(CurName, stage, FALSE))
  /\ ppc' = "loop"
  /\ fi' = fi + 1
  /\ failures' = Append(failures, [filePath |-> CurName, stage |-> stage])
  /\ UNCHANGED trError

\* a stage of the file throws: in processMultiFileProject the catch block of
\* the loop, in processSingleFile the error leaves translate()
FileFails(stage) ==
  /\ trace' = Append(trace, Stage(CurName, stage, FALSE))
  /\ IF inputIsFile
     THEN /\ ppc' = "rejected"
          /\ trError' = stage
          /\ UNCHANGED <<fi, failures>>
     ELSE /\ ppc' = "loop"
          /\ fi' = fi + 1
          /\ failures' = Append(failures, [filePath |-> CurName, stage |-> stage])
          /\ UNCHANGED trError

\* await this.maskingService.maskAst(...)
PmMask ==
  /\ ppc = "mask"
  /\ LET r   == maskAst(options, session, CurAst)
         obj == MapOfReset(serviceMap, Len(mapObjects))
     IN  /\ curAst' = CurAst
         /\ session' = r.ss
         /\ maskCalls' = maskCalls + 1
         /\ serviceMap' = obj
         /\ mapObjects' = StoreMap(mapObjects, obj, r.ss.maskedNodes)
         /\ IF Threw(r.out)
            THEN /\ maskThrew' = TRUE
                 /\ maskedText' = <<>>
                 /\ maskedNodesMap' = <<>>
                 /\ mapRef' = 0
                 /\ UNCHANGED fileMaps
                 /\ FileFails("mask")
            ELSE /\ maskThrew' = FALSE
                 /\ maskedText' = r.out
                 /\ maskedNodesMap' = r.ss.maskedNodes
                 /\ mapRef' = obj
                 /\ fileMaps' = Append(fileMaps,
                      [filePath |-> CurName, ref |-> obj, map |-> r.ss.maskedNodes])
                 /\ trace' = Append(trace, Stage(CurName, "mask", TRUE))
                 /\ ppc' = IF saveFiles THEN "saveMasked" ELSE "translate"
                 /\ UNCHANGED <<fi, failures, trError>>
  /\ UNCHANGED <<chVars, tlVars, options, mpc, segs, translatedText, replaced, replaceThrew,
                 projSetup, orderedFiles, results, outputs, processedFiles,
                 trReturned, llmCalls, chunkings>>

\* saveMaskedText and saveMaskedNodesMap, or saveTranslatedText
PmSave ==
  /\ ppc \in {"saveMasked", "saveTranslated"}
  /\ ppc' = IF ppc = "saveMasked" THEN "translate" ELSE "resolve"
  /\ UNCHANGED <<chVars, tlVars, maskVars, projSetup, orderedFiles, fi, results, outputs,
                 processedFiles, failures, trError, trReturned, trace, llmCalls,
                 chunkings, mapObjects, serviceMap, mapRef, fileMaps>>

\* the write of an intermediate file rejects
PmSaveFails ==
  /\ ppc \in {"saveMasked", "saveTranslated"}
  /\ FileFails("save")
  /\ UNCHANGED <<chVars, tlVars, maskVars, projSetup, orderedFiles, results, outputs,
                 processedFiles, trReturned, llmCalls, chunkings, mapObjects,
                 serviceMap, mapRef, fileMaps>>

\* await this.translationService.translateLargeText(maskedText, ..., 4000, ...)
CallTranslator ==
  LET cs == splitTextIntoChunks(maskedText, ProjectChunkSize)
  IN  /\ \E b \in [1..Len(cs) -> Behaviours] :
           translatedText' =
             Join([i \in 1..Len(cs) |-> PartOf(cs[i], b[i])], <<NL, NL>>)
      /\ llmCalls' = llmCalls + Len(cs)
      /\ chunkings' = chunkings + 1

\* a bypass that goes to the translator all the same
UseMaskedTextTranslated == CallTranslator

\* translatedText = maskedText
UseMaskedText ==
  /\ translatedText' = maskedText
  /\ UNCHANGED <<llmCalls, chunkings>>

\* if (this.options.bypassLLMTranslation) ... else ...
PmTranslate ==
  /\ ppc = "translate"
  /\ IF bypass THEN UseMaskedText ELSE CallTranslator
  /\ trace' = Append(trace, Stage(CurName, "translate", TRUE))
  /\ ppc' = IF saveFiles THEN "saveTranslated" ELSE "resolve"
  /\ UNCHANGED <<chVars, tlVars, options, session, maskCalls, curAst, maskedText,
                 maskedNodesMap, maskThrew, mpc, segs, replaced, replaceThrew,
                 projSetup, orderedFiles, fi, results, outputs, processedFiles,
                 failures, trError, trReturned, mapObjects, serviceMap, mapRef,
                 fileMaps>>

\* translateLargeText rejects: the write of its log file, which it is given
\* a path for when intermediate files are saved
PmTranslateFails ==
  /\ ppc = "translate"
  /\ ~bypass
  /\ saveFiles
  /\ llmCalls' = llmCalls + Len(splitTextIntoChunks(maskedText, ProjectChunkSize))
  /\ chunkings' = chunkings + 1
  /\ FileFails("translate")
  /\ UNCHANGED <<chVars, tlVars, maskVars, projSetup, orderedFiles, results, outputs,
                 processedFiles, trReturned, mapObjects, serviceMap, mapRef,
                 fileMaps>>

\* new ReplacementService(maskedNodesMap).replaceTranslatedText(translatedText)
PmResolve ==
  /\ ppc = "resolve"
  /\ LET out == replaceTranslatedText(mapObjects[mapRef], translatedText)
     IN  /\ replaced' = out
         /\ replaceThrew' = Threw(out)
         /\ IF Threw(out)
            THEN FileFails("resolve")
            ELSE /\ trace' = Append(trace, Stage(CurName, "resolve", TRUE))
                 /\ ppc' = "write"
                 /\ UNCHANGED <<fi, failures, trError>>
  /\ UNCHANGED <<chVars, tlVars, options, session, maskCalls, curAst, maskedText,
                 maskedNodesMap, maskThrew, mpc, segs, translatedText, projSetup,
                 orderedFiles, results, outputs, processedFiles, trReturned,
                 llmCalls, chunkings, mapObjects, serviceMap, mapRef, fileMaps>>

\* addChineseSupport, writeFile to translatedDir; in the loop also
\* processedFiles.add and results.push
PmWrite ==
  /\ ppc = "write"
  /\ outputs' = Append(outputs,
                       [filePath |-> CurName, data |-> addChineseSupport(replaced)])
  /\ trace' = Append(trace, Stage(CurName, "write", TRUE))
  /\ IF inputIsFile
     THEN /\ ppc' = "returned"
          /\ trReturned' = TRUE
          /\ UNCHANGED <<processedFiles, results, fi>>
     ELSE /\ processedFiles' = processedFiles \cup {CurName}
          /\ results' = Append(results, CurName)
          /\ fi' = fi + 1
          /\ ppc' = "loop"
          /\ UNCHANGED trReturned
  /\ UNCHANGED <<chVars, tlVars, maskVars, projSetup, orderedFiles, failures, trError,
                 llmCalls, chunkings, mapObjects, serviceMap, mapRef, fileMaps>>

\* the write of the translated file rejects
PmWriteFails ==
  /\ ppc = "write"
  /\ FileFails("write")
  /\ UNCHANGED <<chVars, tlVars, maskVars, projSetup, orderedFiles, results, outputs,
                 processedFiles, trReturned, llmCalls, chunkings, mapObjects,
                 serviceMap, mapRef, fileMaps>>

\* copyNonTexFiles, and translate() returns the path
TrCopy ==
  /\ ppc = "copy"
  /\ ppc' = "returned"
  /\ trReturned' = TRUE
  /\ UNCHANGED <<chVars, tlVars, maskVars, projSetup, orderedFiles, fi, results, outputs,
                 processedFiles, failures, trError, trace, llmCalls, chunkings,
                 mapObjects, serviceMap, mapRef, fileMaps>>

\* copyNonTexFiles rejects (readdir or mkdir)
TrCopyFails ==
  /\ ppc = "copy"
  /\ ppc' = "rejected"
  /\ trError' = "copy"
  /\ UNCHANGED <<chVars, tlVars, maskVars, projSetup, orderedFiles, fi, results, outputs,
                 processedFiles, failures, trReturned, trace, llmCalls, chunkings,
                 mapObjects, serviceMap, mapRef, fileMaps>>

NextProject ==
  \/ TrPrepare
  \/ TrPrepareFails
  \/ PmNextFile
  \/ PmMask
  \/ PmSave
  \/ PmSaveFails
  \/ PmTranslate
  \/ PmTranslateFails
  \/ PmResolve
  \/ PmWrite
  \/ PmWriteFails
  \/ TrCopy
  \/ TrCopyFails

SpecProject == InitProject /\ [][NextProject]_vars

(***************************************************************************)
(* One LatexTranslatorService asked to translate more than once: the       *)
(* caller calls translate() again after the call before has settled.       *)
(***************************************************************************)
\* the most translate() calls one service is given
MaxTranslateCalls == 2

\* what the parser makes of the inputs of these runs: the files a.tex and
\* b.tex, each with the content it has on disk, alone or as a project
RerunFileA == File(ProjPaths[1], GoodContent)
RerunFileB == File(ProjPaths[2], <<Str(<<"a">>)>>)

RerunAsts ==
  {[files |-> f, rootFilePath |-> ""] :
     f \in {<<RerunFileA>>, <<RerunFileB>>, <<RerunFileA, RerunFileB>>}}

\* the translate() calls made so far, the first included
TranslateCalls == 1 + Cardinality({i \in 1..Len(trace) : trace[i].stage = "call"})

InitRerun ==
  /\ ServiceAtRest
  /\ callerBypass \in {"true", "false"}
  /\ configBypass = "undefined"
  /\ bypass = (MergedBypass(callerBypass, configBypass) = "true")
  /\ callerSave \in {"true", "false"}
  /\ configSave = "undefined"
  /\ saveFiles = (MergedSave(callerSave, configSave) = "true")
  /\ inputIsFile \in BOOLEAN
  /\ originalAst \in RerunAsts
  /\ ppc = "new"
  /\ mapObjects = <<<<>>>>
  /\ serviceMap = 1

\* translate(inputPath) is called on the service once more: the locals of
\* the call before are gone, the fields of the service are as it left them
\* (processedFiles is assigned in the constructor only)
TranslateAgain ==
  /\ ppc \in {"returned", "rejected"}
  /\ TranslateCalls < MaxTranslateCalls
  /\ inputIsFile' \in BOOLEAN
  /\ originalAst' \in RerunAsts
  /\ orderedFiles' = <<>>
  /\ fi' = 0
  /\ results' = <<>>
  /\ trError' = ""
  /\ trReturned' = FALSE
  /\ trace' = Append(trace, Stage("", "call", TRUE))
  /\ ppc' = "new"
  /\ UNCHANGED <<chVars, tlVars, maskVars, callerBypass, configBypass, bypass,
                 callerSave, configSave, saveFiles, outputs, processedFiles,
                 failures, llmCalls, chunkings, mapObjects, serviceMap, mapRef,
                 fileMaps>>

NextRerun == NextProject \/ TranslateAgain

SpecRerun == InitRerun /\ [][NextRerun]_vars

(***************************************************************************)
(* Claims about the chunker (under SpecChunk).                             *)
(***************************************************************************)
\* the places where the token tok occurs in s
TokenStarts(s, tok) ==
  {p \in 1..(Len(s) - Len(tok) + 1) : SubSeq(s, p, p + Len(tok) - 1) = tok}

RECURSIVE TokensInChunks(_, _)
\* the number of whole tokens the chunks hold, chunk by chunk
TokensInChunks(cs, tok) ==
  IF cs = <<>> THEN 0
  ELSE Cardinality(TokenStarts(Head(cs), tok)) + TokensInChunks(Tail(cs), tok)

RECURSIVE NonSpace(_)
\* the characters of s that are not whitespace, in order
NonSpace(s) ==
  IF s = <<>> THEN <<>>
  ELSE IF IsSpace(Head(s)) THEN NonSpace(Tail(s))
  ELSE <<Head(s)>> \o NonSpace(Tail(s))

\* the text is one paragraph: split(/\n\s*\n/) finds no separator in it
IsOneParagraph(t) == ParaSepStarts(t) = {}

\* C1 (as claimed): token atomicity. Every placeholder token of the flat
\* text lies wholly inside one chunk: the chunks hold as many whole tokens
\* as the text does, so no chunk boundary falls strictly inside a token.
C1_TokenAtomicity ==
  pc = "split" =>
    TokensInChunks(chunks, SampleToken) = Cardinality(TokenStarts(text, SampleToken))

\* C3 (as claimed): chunk order. The chunks are in document order: the
\* content of chunk 1, then of chunk 2, ... is met in this order when the
\* flat text is read from its start. The chunker only ever leaves out
\* separator whitespace, so the contents are compared without whitespace.
C3_ChunkOrder ==
  pc = "split" => NonSpace(Concat(chunks)) = NonSpace(text)

\* C4 (as claimed): chunk size bound. Every chunk has at most maxChunkSize
\* characters, so a single paragraph of more than twice maxChunkSize
\* characters (9000 against 4000) yields at least three chunks.
C4_ChunkSizeBound ==
  pc = "split" =>
    /\ \A i \in 1..Len(chunks) : Len(chunks[i]) <= maxChunkSize
    /\ (IsOneParagraph(text) /\ Len(text) > 2 * maxChunkSize) => Len(chunks) >= 3

\* the first half of C4 alone: no chunk is longer than maxChunkSize
ChunkLengthBound ==
  pc = "split" => \A i \in 1..Len(chunks) : Len(chunks[i]) <= maxChunkSize

(***************************************************************************)
(* Claims about translateLargeText (under SpecTl).                         *)
(***************************************************************************)
\* every translateText call so far returned its chunk unchanged
AllEchoed ==
  \A i \in 1..Len(outcomes) : ~outcomes[i].threw /\ outcomes[i].value = chunks[i]

\* the chunk indices whose call threw
Failed == {i \in 1..Len(outcomes) : outcomes[i].threw}

\* C2 (as claimed): identity round trip. With a translator that returns
\* every chunk unchanged, translateLargeText returns exactly the text.
C2_IdentityRoundTrip ==
  (pc = "done" /\ AllEchoed) => tlResult = text

Masked == mpc = "masked" /\ ~maskThrew

\* C5 (as claimed): scenario A. The tree of `Hello $x+y=1$ world.`, masked
\* with maskInlineMath, gives `Hello  <ph id="IMATH_0001"/>  world.` and a
\* map from IMATH_0001 to the inline math node, and replacing the tokens of
\* the unchanged masked text gives `Hello $x+y=1$ world.` again.
C5_ScenarioARoundTrip ==
  (/\ mpc = "replaced"
   /\ curAst = ScenarioA
   /\ options.maskInlineMath
   /\ segs = <<>>
   /\ translatedText = maskedText)
  => /\ maskedText = <<"H", "e", "l", "l", "o", SP, SP, "<", "p", "h", SP, "i", "d", "=", DQ, "I", "M", "A", "T", "H", "_", "0", "0", "0", "1", DQ, "/", ">", SP, SP, "w", "o", "r", "l", "d", ".">>
     /\ maskedNodesMap =
          <<[id |-> <<"I", "M", "A", "T", "H", "_", "0", "0", "0", "1">>,
             originalContent |-> InlineMath(<<Str(<<"x", "+", "y", "=", "1">>)>>)]>>
     /\ replaced = <<"H", "e", "l", "l", "o", SP, "$", "x", "+", "y", "=", "1", "$", SP, "w", "o", "r", "l", "d", ".">>

\* what scenario A does give: the masked text and the map are as claimed,
\* the spaces around the token stay around the restored mathematics
C5_ScenarioAObserved ==
  (/\ mpc = "replaced"
   /\ curAst = ScenarioA
   /\ options.maskInlineMath
   /\ segs = <<>>)
  => /\ maskedText = <<"H", "e", "l", "l", "o", SP, SP, "<", "p", "h", SP, "i", "d", "=", DQ, "I", "M", "A", "T", "H", "_", "0", "0", "0", "1", DQ, "/", ">", SP, SP, "w", "o", "r", "l", "d", ".">>
     /\ MapKeys(maskedNodesMap) = {<<"I", "M", "A", "T", "H", "_", "0", "0", "0", "1">>}
     /\ replaced = <<"H", "e", "l", "l", "o", SP, SP, "$", "x", "+", "y", "=", "1", "$", SP, SP, "w", "o", "r", "l", "d", ".">>

NoDuplicates(s) == \A i, j \in 1..Len(s) : s[i] = s[j] => i = j

Range(s) == {s[i] : i \in 1..Len(s)}

IssuedIds(ss) == [i \in 1..Len(ss.issued) |-> ss.issued[i].id]

\* C6: id uniqueness. After a maskAst call the keys of the returned map are
\* pairwise distinct, the tokens of the masked text carry pairwise distinct
\* ids, the ids of the tokens are exactly the keys of the map, and no id
\* was handed out twice by generateMaskId during the call.
C6_IdUniqueness ==
  Masked =>
    /\ NoDuplicates([i \in 1..Len(maskedNodesMap) |-> maskedNodesMap[i].id])
    /\ NoDuplicates(TokenIds(maskedText))
    /\ Range(TokenIds(maskedText)) = MapKeys(maskedNodesMap)
    /\ Len(TokenIds(maskedText)) = Len(maskedNodesMap)
    /\ NoDuplicates(IssuedIds(session))
    /\ Range(IssuedIds(session)) = MapKeys(maskedNodesMap)

\* two files were masked by a service that had masked before, and two
\* nodes of the same kind were registered
C6_Witness ==
  /\ Masked
  /\ maskCalls = 2
  /\ Len(curAst.files) = 2
  /\ Len(session.issued) = 2
  /\ session.issued[1].prefix = session.issued[2].prefix

\* the counter value, as the four digits of an id (for counters below 10)
FourDigits(n) == <<"0", "0", "0", Digits[n + 1]>>

\* how many of the first i ids handed out were asked for with prefix k
CountOfKind(issued, i, k) == Cardinality({j \in 1..i : issued[j].prefix = k})

\* C7 (as claimed): per-kind counters. The n-th id handed out for a prefix
\* K in a session is K_<n, four digits>, however many ids of other
\* prefixes were handed out before it.
C7_PerKindCounters ==
  Masked =>
    \A i \in 1..Len(session.issued) :
      session.issued[i].id =
        session.issued[i].prefix \o <<"_">>
          \o FourDigits(CountOfKind(session.issued, i, session.issued[i].prefix))

\* C7 (amended): one counter for all kinds. The n-th id handed out in a
\* session, whatever its prefix K, is K_<n, four digits>, and the counter
\* of the service stands at the number of ids handed out.
C7_SharedCounter ==
  Masked =>
    /\ \A i \in 1..Len(session.issued) :
         session.issued[i].id = session.issued[i].prefix \o <<"_">> \o FourDigits(i)
    /\ session.maskCounter = Len(session.issued)
    /\ \A i \in 1..Len(session.issued) :
         /\ maskedNodesMap[i].id = session.issued[i].id
         /\ maskedNodesMap[i].originalContent.type /= "string"

\* a protected command followed by a protected inline math
C7_Witness ==
  /\ Masked
  /\ Len(session.issued) = 2
  /\ session.issued[1].prefix = <<"C", "M", "D">>
  /\ session.issued[2].prefix = <<"I", "M", "A", "T", "H">>

\* C8: determinism. Whatever the service has masked before, and however
\* often, a maskAst call returns what a service with untouched fields
\* returns for the same tree and options: the same masked text and the same
\* map (or throws, if that one throws).
C8_Determinism ==
  mpc = "masked" =>
    LET fresh == MaskFiles(options, NewSession, curAst.files, <<>>)
    IN  IF Threw(fresh.out) THEN maskThrew
        ELSE /\ ~maskThrew
             /\ maskedText = fresh.out
             /\ maskedNodesMap = fresh.ss.maskedNodes

\* the second call of a service, on a tree with two nodes to register
C8_Witness ==
  /\ Masked
  /\ maskCalls = 2
  /\ Len(maskedNodesMap) = 2

\* what replaceTranslatedText is to make of one piece of the answer
ExpectedOfSeg(map, seg) ==
  IF ~seg.tok THEN seg.s
  ELSE IF seg.s \in MapKeys(map) THEN nodeToLatex(MapGet(map, seg.s))
  ELSE TokenOf(seg.s)

RECURSIVE ExpectedOfSegs(_, _)
ExpectedOfSegs(map, ss) ==
  IF ss = <<>> THEN <<>>
  ELSE ExpectedOfSeg(map, Head(ss)) \o ExpectedOfSegs(map, Tail(ss))

\* C9: unknown id safety. replaceTranslatedText leaves a token whose id is
\* not a key of the map as it is, replaces every token whose id is a key by
\* the LaTeX of its node, keeps the text between the tokens, and does not
\* throw.
C9_UnknownIdSafety ==
  (mpc = "replaced" /\ segs /= <<>>) =>
    /\ ~replaceThrew
    /\ replaced = ExpectedOfSegs(maskedNodesMap, segs)

\* an answer with a token of an unknown id before a token of a known one
C9_Witness ==
  /\ mpc = "replaced"
  /\ Len(segs) = 2
  /\ segs[1] = Tok(UnknownId)
  /\ segs[2].tok
  /\ segs[2].s \in MapKeys(maskedNodesMap)
  /\ replaced = TokenOf(UnknownId) \o nodeToLatex(MapGet(maskedNodesMap, segs[2].s))

\* a node one of whose arguments has a string for its content
HasStringArgument(nd) == \E i \in 1..Len(nd.args) : nd.args[i].ck = "string"

\* with a map none of whose nodes has such an argument the tokens of unknown
\* ids are left alone, the others resolved, and nothing is thrown
C9_Observed ==
  (/\ mpc = "replaced"
   /\ segs /= <<>>
   /\ \A i \in 1..Len(maskedNodesMap) :
         ~HasStringArgument(maskedNodesMap[i].originalContent)) =>
    /\ ~replaceThrew
    /\ replaced = ExpectedOfSegs(maskedNodesMap, segs)

(***************************************************************************)
(* Claims about the order of the translator calls (under SpecTl).          *)
(***************************************************************************)
\* the part of the result that belongs to the i-th call
PartOfCall(i) == IF outcomes[i].threw THEN chunks[i] ELSE outcomes[i].value

\* what holds of the calls in every state of translateLargeText
OneCallAtATime ==
  /\ outstanding \in {0, 1}
  /\ outstanding = 1 <=> pc = "await"
  /\ Len(submitted) = Len(outcomes) + outstanding
  /\ \A i \in 1..Len(submitted) : submitted[i] = i
  /\ pc = "done" =>
       /\ Len(outcomes) = Len(chunks)
       /\ tlResult = Join([i \in 1..Len(chunks) |-> PartOfCall(i)], <<NL, NL>>)

\* what holds of every step that hands a chunk to the translator
SubmitsNextChunk ==
  submitted' /= submitted =>
    /\ outstanding = 0
    /\ Len(outcomes) = Len(submitted)
    /\ submitted' = Append(submitted, Len(submitted) + 1)
    /\ Len(submitted) < Len(chunks)

\* C11: sequential translation. A chunk is handed to the translator only
\* when the calls for all chunks before it have returned or thrown and none
\* is outstanding, so at most one call is outstanding at any time; the
\* chunks are handed over in the chunker's order, one call each, and the
\* result joins the parts in that order.
C11_SequentialTranslation == []OneCallAtATime /\ [][SubmitsNextChunk]_vars

\* three chunks were translated: the first call threw, the second returned,
\* and the third was made after both
C11_Witness ==
  /\ pc = "done"
  /\ Len(chunks) = 3
  /\ outcomes[1].threw
  /\ ~outcomes[2].threw
  /\ submitted = <<1, 2, 3>>

(***************************************************************************)
(* Claims about translate() (under SpecProject and SpecConstruct).         *)
(***************************************************************************)
\* the stages of a file that can throw
FileStages == {"mask", "save", "translate", "resolve", "write"}

\* the filePaths of a sequence of records
PathsOf(rs) == [i \in 1..Len(rs) |-> rs[i].filePath]

IsPrefix(s, t) == Len(s) <= Len(t) /\ SubSeq(t, 1, Len(s)) = s

\* the loop of processMultiFileProject is over
LoopOver == ppc \in {"copy", "returned"} \/ (ppc = "rejected" /\ trError = "copy")

\* what holds of the files that failed, in every state of a multi-file run
FailedFilesIsolated ==
  ~inputIsFile =>
    /\ \A k \in 1..Len(failures) :
         /\ failures[k].stage \in FileStages
         /\ failures[k].filePath \notin Range(results)
         /\ failures[k].filePath \notin Range(PathsOf(outputs))
         /\ failures[k].filePath \notin processedFiles
    /\ PathsOf(outputs) = results
    /\ trError \notin FileStages
    /\ LoopOver =>
         \A i \in 1..Len(orderedFiles) :
           LET p == orderedFiles[i].filePath
           IN  (p \in Range(results)) /= (p \in Range(PathsOf(failures)))

\* what holds of every step in which a file fails, and of every other step
FailureKeepsTheRest ==
  ~inputIsFile =>
    /\ IsPrefix(results, results')
    /\ IsPrefix(outputs, outputs')
    /\ processedFiles \subseteq processedFiles'
    /\ failures' /= failures =>
         /\ results' = results
         /\ outputs' = outputs
         /\ processedFiles' = processedFiles
         /\ fi' = fi + 1
         /\ ppc' = "loop"

\* C12: file-level failure isolation. In a multi-file run a file whose
\* masking, saving, translating, resolving or writing throws gets no result
\* entry, no output and no place in processedFiles; the step in which it
\* fails leaves the results, outputs and processedFiles as they are and
\* moves the loop to the next file; when the loop is over every file of the
\* list has either a result or a caught failure; and no error of a file
\* stage is the error translate() rejects with.
C12_FailureIsolation == []FailedFilesIsolated /\ [][FailureKeepsTheRest]_vars

\* translate() returned after the second of three files had failed and the
\* files before and after it had been written
C12_Witness ==
  /\ ~inputIsFile
  /\ ppc = "returned"
  /\ Len(orderedFiles) = 3
  /\ PathsOf(failures) = <<orderedFiles[2].filePath>>
  /\ results = <<orderedFiles[1].filePath, orderedFiles[3].filePath>>


\* the stages that failed so far, in order
FailedStages == SelectSeq(trace, LAMBDA e : ~e.ok)

\* C13: single-file failure propagation. In single-file mode a stage of
\* processSingleFile that throws (masking, saving, translating, resolving or
\* writing) ends the run at once: translate() rejects with the error of that
\* stage, nothing is caught or recorded as a file failure, nothing is written
\* to the output path, and translate() never returns.
C13_SingleFilePropagation ==
  (inputIsFile /\ FailedStages /= <<>>) =>
    /\ Len(FailedStages) = 1
    /\ trace[Len(trace)] = FailedStages[1]
    /\ ppc = "rejected"
    /\ trError = FailedStages[1].stage
    /\ ~trReturned
    /\ failures = <<>>
    /\ outputs = <<>>

\* a single-file run whose resolving threw after the masking and the
\* translation had succeeded
C13_Witness ==
  /\ inputIsFile
  /\ ppc = "rejected"
  /\ trError = "resolve"
  /\ \E p \in 1..Len(trace) : trace[p].stage = "translate" /\ trace[p].ok


\* the last four characters of an id
CounterPart(id) == SubSeq(id, Len(id) - 3, Len(id))

\* C14: fresh session per file. The map maskAst returned for a file numbers
\* its entries 0001, 0002, ... in the order they were registered, however
\* many files the service had masked before; after a call the counter of the
\* service is the number of ids handed out in that call; and the Map object
\* returned for a file still holds the entries it was returned with after
\* every later file has been masked.
C14_FreshSessionPerFile ==
  /\ \A k \in 1..Len(fileMaps) :
       LET m == fileMaps[k].map
       IN  /\ \A j \in 1..Len(m) : CounterPart(m[j].id) = FourDigits(j)
           /\ mapObjects[fileMaps[k].ref] = m
  /\ maskCalls >= 1 =>
       /\ session.maskCounter = Len(session.issued)
       /\ Len(session.maskedNodes) = Len(session.issued)

\* three files were masked one after the other; the first returned a map
\* of two entries, the second a different map whose first id is the first
\* id of the first file again
C14_Witness ==
  /\ ~inputIsFile
  /\ maskCalls = 3
  /\ Len(fileMaps) >= 2
  /\ Len(fileMaps[1].map) = 2
  /\ Len(fileMaps[2].map) >= 1
  /\ fileMaps[2].map[1].id = fileMaps[1].map[1].id
  /\ fileMaps[1].map /= fileMaps[2].map
  /\ fileMaps[1].ref /= fileMaps[2].ref


(***************************************************************************)
(* Claims about the rules of the walker (under SpecMask).                  *)
(***************************************************************************)
\* the nodes below a node: those of its content and of its arguments
RECURSIVE Descendants(_)
Descendants(n) ==
  LET inContent == IF n.ck = "array" THEN Range(n.content) ELSE {}
      inArgs == UNION {Range(a.content) : a \in {b \in Range(n.args) : b.ck = "array"}}
      kids == inContent \cup inArgs
  IN  kids \cup UNION {Descendants(k) : k \in kids}

\* the places of the files' top-level nodes
TopPlaces(ast) ==
  UNION {{<<f, p>> : p \in 1..Len(ast.files[f].content)} : f \in 1..Len(ast.files)}

NodeAt(ast, pl) == ast.files[pl[1]].content[pl[2]]

\* the entries of a map that hold a node
EntriesOf(m, nd) == {i \in 1..Len(m) : m[i].originalContent = nd}

\* the kind of an id: what stands before _<four digits>
KindOf(id) == SubSeq(id, 1, Len(id) - 5)

\* the strings of the string nodes below a node
TextBelow(nd) == UNION {Range(d.text) : d \in {e \in Descendants(nd) : e.type = "string"}}

IsProtectedBlock(opts, nd) ==
  nd.type = "environment" /\ nd.env \in opts.regularEnvironments

\* C15: atomic protected block. A top-level Block whose name is in
\* regularEnvironments has, for each place it stands at, one entry in the
\* returned map, of kind ENV, and the token of that entry in the masked
\* text; no node below it has an entry; no text below it is in the masked
\* text; and the masked text has as many tokens as the map has entries.
C15_AtomicProtectedBlock ==
  Masked =>
    \A pl \in TopPlaces(curAst) :
      LET nd == NodeAt(curAst, pl)
      IN  IsProtectedBlock(options, nd) =>
            /\ Cardinality(EntriesOf(maskedNodesMap, nd)) =
                 Cardinality({q \in TopPlaces(curAst) : NodeAt(curAst, q) = nd})
            /\ \A i \in EntriesOf(maskedNodesMap, nd) :
                 /\ KindOf(maskedNodesMap[i].id) = <<"E", "N", "V">>
                 /\ maskedNodesMap[i].id \in Range(TokenIds(maskedText))
            /\ \A d \in Descendants(nd) : EntriesOf(maskedNodesMap, d) = {}
            /\ TextBelow(nd) \cap Range(maskedText) = {}
            /\ Len(TokenIds(maskedText)) = Len(maskedNodesMap)

\* a figure that holds a figure, a display math and a \textbf was masked
\* between an inline math and a \cite, with every switch on: three entries
C15_Witness ==
  /\ Masked
  /\ curAst = [files |-> <<File("a.tex", <<MathX, FigureNested, CiteK>>)>>]
  /\ IsProtectedBlock(options, FigureNested)
  /\ options.maskInlineMath /\ options.maskDisplayMath /\ options.maskComments
  /\ Len(maskedNodesMap) = 3
  /\ maskedNodesMap[2].originalContent = FigureNested

\* the built-in formatting commands the walker is said to protect
FormattingNames ==
  {<<"t", "e", "x", "t", "b", "f">>, <<"t", "e", "x", "t", "i", "t">>, <<"e", "m", "p", "h">>, <<"s", "e", "c", "t", "i", "o", "n">>}

ExpectedOrder(a) ==
  LET paths == PathsOf(a.files)
      isRoot(p) == p = a.rootFilePath
      notRoot(p) == p /= a.rootFilePath
  IN  IF a.rootFilePath /= "" THEN SelectSeq(paths, isRoot) \o SelectSeq(paths, notRoot)
      ELSE paths

\* the events that start a file
Starts == SelectSeq(trace, LAMBDA e : e.stage = "start")

\* an event after which the processing of its file is over
EndsFile(e) == (e.stage = "write" /\ e.ok) \/ ~e.ok

\* C16: file processing order. In a multi-file run the files are started in
\* the order root file first (when the list has it), then the others in the
\* order of the list; every event between the start of a file and the start
\* of the next is an event of that file; a file is started only when the
\* one before it was written or has failed; and when the loop is over every
\* file of the list was started, once.
C16_FileOrder ==
  ~inputIsFile =>
    /\ IsPrefix(PathsOf(Starts), ExpectedOrder(originalAst))
    /\ LoopOver => PathsOf(Starts) = ExpectedOrder(originalAst)
    /\ \A p \in 1..Len(trace) :
         IF trace[p].stage = "start"
         THEN p > 1 => EndsFile(trace[p - 1])
         ELSE /\ p > 1
              /\ trace[p].filePath = trace[p - 1].filePath
              /\ ~EndsFile(trace[p - 1])

\* a project whose root file is the third of three: it was processed first,
\* failed in resolving, and the two others were written after it in the
\* order of the list
C16_Witness ==
  /\ ~inputIsFile
  /\ ppc = "returned"
  /\ Len(originalAst.files) = 3
  /\ originalAst.rootFilePath = originalAst.files[3].filePath
  /\ PathsOf(Starts) = <<originalAst.files[3].filePath, originalAst.files[1].filePath,
                         originalAst.files[2].filePath>>
  /\ failures = <<[filePath |-> originalAst.files[3].filePath, stage |-> "resolve"]>>
  /\ results = <<originalAst.files[1].filePath, originalAst.files[2].filePath>>


(***************************************************************************)
(* Claims about bypassLLMTranslation (under SpecConstruct and SpecProject).*)
(***************************************************************************)
\* C17 (as claimed): default of bypassLLMTranslation. A service constructed
\* with neither the configuration nor the caller's options setting
\* bypassLLMTranslation has the effective value false.
C17_BypassDefaultsToFalse ==
  (ppc = "new" /\ callerBypass = "undefined" /\ configBypass = "undefined") => ~bypass

\* what the constructor is observed to do with neither of the two set: the
\* effective value is true
C17_BypassDefaultObserved ==
  (ppc = "new" /\ callerBypass = "undefined" /\ configBypass = "undefined") => bypass

\* C18: bypass mode. With bypassLLMTranslation true a run makes no
\* translator call and chunks no text, in single-file and in multi-file
\* mode, and the text the resolver is handed for a file is the masked text of
\* that file.
C18_BypassMode ==
  bypass =>
    /\ llmCalls = 0
    /\ chunkings = 0
    /\ ppc \in {"saveTranslated", "resolve", "write"} => translatedText = maskedText
    /\ ppc = "write" => replaced = replaceTranslatedText(maskedNodesMap, maskedText)

\* a bypass run over two files, both resolved and written
C18_Witness ==
  /\ bypass
  /\ ~inputIsFile
  /\ ppc = "returned"
  /\ Len(results) = 2
  /\ Len(outputs) = 2
  /\ llmCalls = 0


(***************************************************************************)
(* Claims about addChineseSupport (under SpecChinese).                     *)
(***************************************************************************)
\* the text t holds the text lit somewhere
Contains(t, lit) == \E p \in 1..Len(t) : Expect(t, p, lit) > 0

\* the document already has Chinese support: \usepackage{ctex},
\* \usepackage[UTF8]{ctex} or a document class of the ctexart family
HasChineseSupport(t) ==
  \/ Contains(t, <<"\\", "u", "s", "e", "p", "a", "c", "k", "a", "g", "e", "{", "c", "t", "e", "x", "}">>)
  \/ Contains(t, <<"\\", "u", "s", "e", "p", "a", "c", "k", "a", "g", "e", "[", "U", "T", "F", "8", "]", "{", "c", "t", "e", "x", "}">>)
  \/ Contains(t, <<"\\", "d", "o", "c", "u", "m", "e", "n", "t", "c", "l", "a", "s", "s", "{", "c", "t", "e", "x", "a", "r", "t", "}">>)
  \/ Contains(t, <<"\\", "d", "o", "c", "u", "m", "e", "n", "t", "c", "l", "a", "s", "s", "{", "c", "t", "e", "x", "r", "e", "p", "}">>)
  \/ Contains(t, <<"\\", "d", "o", "c", "u", "m", "e", "n", "t", "c", "l", "a", "s", "s", "{", "c", "t", "e", "x", "b", "o", "o", "k", "}">>)

\* C19 (as claimed): no duplicate Chinese support. addChineseSupport returns
\* a document that already has Chinese support unchanged, and applying it to
\* what it returned returns that again.
C19_NoDuplicateChineseSupport ==
  /\ (chResults /= <<>> /\ HasChineseSupport(chDocument)) => chResults[1] = chDocument
  /\ Len(chResults) >= 2 => chResults[2] = chResults[1]

\* what addChineseSupport is observed to do: a document with a line that
\* starts with \documentclass gets one more line with every application,
\* unless it holds the text \usepackage\\{\bctex\b\}, which is the
\* only text of the model's documents the two expressions match; every other
\* document is returned as it is
C19_Observed ==
  \A i \in 1..Len(chResults) :
    LET lines == SplitLines(chDocument)
        grows == /\ \E k \in 1..Len(lines) :
                      LineStartsWith(lines[k], <<"\\", "d", "o", "c", "u", "m", "e", "n", "t", "c", "l", "a", "s", "s">>)
                 /\ ~Contains(chDocument, LiteralCtexLine)
    IN  IF grows
        THEN Len(SplitLines(chResults[i])) = Len(lines) + i
        ELSE chResults[i] = chDocument


(***************************************************************************)
(* Claims about the rules for blocks, mathematics and comments (under      *)
(* SpecMask).                                                              *)
(***************************************************************************)
\* the places of the top-level nodes that are the node nd
PlacesOf(ast, nd) == {q \in TopPlaces(ast) : NodeAt(ast, q) = nd}

StartsWith(t, lit) == Expect(t, 1, lit) > 0

EndsWith(t, lit) ==
  Len(lit) <= Len(t) /\ SubSeq(t, Len(t) - Len(lit) + 1, Len(t)) = lit

\* the nodes of a list are all strings
AllStrings(nodes) == \A i \in 1..Len(nodes) : nodes[i].type = "string"

\* the text of a list of string nodes
StringsOf(nodes) == Concat([i \in 1..Len(nodes) |-> nodes[i].text])

\* the marks and the text of arguments whose contents are strings nodes
PlainArgs(args) ==
  Concat([i \in 1..Len(args) |->
            args[i].openMark \o StringsOf(args[i].content) \o args[i].closeMark])

IsBlock(nd) == nd.type \in {"environment", "mathenv"} /\ nd.env /= <<>>

\* the rule for blocks, as the specification states it
BlockProtected(opts, nd) ==
  \/ nd.env \in opts.regularEnvironments
  \/ nd.env \in opts.mathEnvironments /\ opts.maskDisplayMath

\* the file of the call holds the node nd and nothing else
Alone(nd) == Len(curAst.files) = 1 /\ curAst.files[1].content = <<nd>>

\* C21: block rule. A top-level Block with a name has an entry (one for
\* each place it stands at, of kind ENV or MATH_ENV) if and only if its name
\* is in regularEnvironments, or in mathEnvironments with maskDisplayMath
\* true. A Block that is not protected has no entry; alone in its file it is
\* emitted with \begin{name} and its arguments at the start and \end{name}
\* at the end, and when its children are all strings, with their text in
\* between.
C21_BlockRule ==
  Masked =>
    \A pl \in TopPlaces(curAst) :
      LET nd == NodeAt(curAst, pl)
          entries == EntriesOf(maskedNodesMap, nd)
          begin == <<"\\", "b", "e", "g", "i", "n", "{">> \o nd.env \o <<"}">> \o PlainArgs(nd.args)
          end == <<"\\", "e", "n", "d", "{">> \o nd.env \o <<"}">>
      IN  IsBlock(nd) =>
            IF BlockProtected(options, nd)
            THEN /\ Cardinality(entries) = Cardinality(PlacesOf(curAst, nd))
                 /\ \A i \in entries :
                      KindOf(maskedNodesMap[i].id) =
                        IF nd.env \in options.mathEnvironments /\ options.maskDisplayMath
                        THEN <<"M", "A", "T", "H", "_", "E", "N", "V">> ELSE <<"E", "N", "V">>
            ELSE /\ entries = {}
                 /\ Alone(nd) =>
                      /\ StartsWith(maskedText, begin)
                      /\ EndsWith(maskedText, end)
                      /\ AllStrings(nd.content) =>
                           maskedText = begin \o StringsOf(nd.content) \o end

\* \begin{align}{g}y\end{align} was masked with align in mathEnvironments
\* and maskDisplayMath false: no entry, and the block in the masked text
C21_Witness ==
  /\ Masked
  /\ Alone(AlignWithArg)
  /\ AlignWithArg.env \in options.mathEnvironments
  /\ ~options.maskDisplayMath
  /\ maskedNodesMap = <<>>
  /\ maskedText = <<"\\", "b", "e", "g", "i", "n", "{", "a", "l", "i", "g", "n", "}", "{", "g", "}", "y", "\\", "e", "n", "d", "{", "a", "l", "i", "g", "n", "}">>

\* C22: math flags. A top-level InlineMath has an entry (of kind IMATH, one
\* for each place) if and only if maskInlineMath is true, a top-level
\* DisplayMath has one (of kind DMATH) if and only if maskDisplayMath is
\* true; with the flag false the node has no entry and the masked text holds
\* its content between $ and $, or between \[ and \].
C22_MathFlags ==
  Masked =>
    \A pl \in TopPlaces(curAst) :
      LET nd == NodeAt(curAst, pl)
          entries == EntriesOf(maskedNodesMap, nd)
          places == PlacesOf(curAst, nd)
      IN  /\ nd.type = "inlinemath" =>
               IF options.maskInlineMath
               THEN /\ Cardinality(entries) = Cardinality(places)
                    /\ \A i \in entries : KindOf(maskedNodesMap[i].id) = <<"I", "M", "A", "T", "H">>
               ELSE /\ entries = {}
                    /\ AllStrings(nd.content) =>
                         Contains(maskedText, <<"$">> \o StringsOf(nd.content) \o <<"$">>)
          /\ nd.type = "displaymath" =>
               IF options.maskDisplayMath
               THEN /\ Cardinality(entries) = Cardinality(places)
                    /\ \A i \in entries : KindOf(maskedNodesMap[i].id) = <<"D", "M", "A", "T", "H">>
               ELSE /\ entries = {}
                    /\ AllStrings(nd.content) =>
                         Contains(maskedText, <<"\\", "[">> \o StringsOf(nd.content) \o <<"\\", "]">>)

\* $x$ was masked twice in one file with maskInlineMath true: two entries
\* of kind IMATH
C22_Witness ==
  /\ Masked
  /\ options.maskInlineMath
  /\ Len(curAst.files) = 1
  /\ curAst.files[1].content = <<MathX, MathX>>
  /\ Len(maskedNodesMap) = 2


\* the comment nodes at or below the top-level nodes of the files
CommentsOf(ast) ==
  LET tops == {NodeAt(ast, pl) : pl \in TopPlaces(ast)}
      all == tops \cup UNION {Descendants(nd) : nd \in tops}
  IN  {nd \in all : nd.type = "comment"}

\* the node is below a top-level node that the walker registers whole
BelowProtected(opts, ast, nd) ==
  \E pl \in TopPlaces(ast) :
    LET top == NodeAt(ast, pl)
    IN  /\ nd \in Descendants(top)
        /\ \/ IsBlock(top) /\ BlockProtected(opts, top)
           \/ top.type = "macro" /\ top.text \in opts.maskCommands \cup formattingCommands

\* C23 (as claimed): comment rule. A comment the walker meets, at the top
\* level or below a node that is not registered whole, has an entry of kind
\* COMMENT if and only if maskComments is true; with maskComments false it
\* has no entry and its text is not in the masked text.
C23_CommentRule ==
  Masked =>
    \A nd \in CommentsOf(curAst) :
      ~BelowProtected(options, curAst, nd) =>
        IF options.maskComments
        THEN /\ EntriesOf(maskedNodesMap, nd) /= {}
             /\ \A i \in EntriesOf(maskedNodesMap, nd) :
                  KindOf(maskedNodesMap[i].id) = <<"C", "O", "M", "M", "E", "N", "T">>
        ELSE /\ EntriesOf(maskedNodesMap, nd) = {}
             /\ ~Contains(maskedText, <<"%">> \o nd.text)

\* what is observed: the rule holds of the comments that are top-level
\* nodes or children of a block the walker walks; the comment in the
\* argument of \foo{t%d} is written into the masked text as %d and a
\* newline, with no entry, whatever maskComments says
C23_Observed ==
  Masked =>
    /\ \A pl \in TopPlaces(curAst) :
         LET nd == NodeAt(curAst, pl)
         IN  nd.type = "comment" =>
               IF options.maskComments
               THEN /\ EntriesOf(maskedNodesMap, nd) /= {}
                    /\ \A i \in EntriesOf(maskedNodesMap, nd) :
                         KindOf(maskedNodesMap[i].id) = <<"C", "O", "M", "M", "E", "N", "T">>
               ELSE /\ EntriesOf(maskedNodesMap, nd) = {}
                    /\ "%" \notin Range(maskedText)
    /\ Alone(FooComment) =>
         /\ maskedText = <<"\\", "f", "o", "o", "{", "t", "%", "d", NL, "}">>
         /\ maskedNodesMap = <<>>


\* the nodes of an unrecognised type among the top-level nodes
Unrecognized(ast) ==
  {nd \in {NodeAt(ast, pl) : pl \in TopPlaces(ast)} : nd.type = "other"}

\* C24 (as claimed): unrecognized node rule. A node of an unrecognised type
\* gets no entry and the walker does not throw on it; alone in a file it
\* gives the masked text and the map of its children when its content is a
\* node list, its content as it is when that is a string, and the empty text
\* when it has no content.
C24_UnrecognizedNodeRule ==
  mpc = "masked" =>
    \A nd \in Unrecognized(curAst) :
      /\ ~maskThrew
      /\ EntriesOf(maskedNodesMap, nd) = {}
      /\ Alone(nd) =>
           CASE nd.ck = "array" ->
                  LET below == MaskFiles(options, NewSession,
                                         <<File("a.tex", nd.content)>>, <<>>)
                  IN  /\ maskedText = below.out
                      /\ maskedNodesMap = below.ss.maskedNodes
             [] nd.ck = "string" -> maskedText = nd.text /\ maskedNodesMap = <<>>
             [] OTHER -> maskedText = <<>> /\ maskedNodesMap = <<>>

\* what is observed: all of it but the string content, which is left out of
\* the masked text
C24_Observed ==
  mpc = "masked" =>
    \A nd \in Unrecognized(curAst) :
      /\ ~maskThrew
      /\ EntriesOf(maskedNodesMap, nd) = {}
      /\ Alone(nd) =>
           CASE nd.ck = "array" ->
                  LET below == MaskFiles(options, NewSession,
                                         <<File("a.tex", nd.content)>>, <<>>)
                  IN  /\ maskedText = below.out
                      /\ maskedNodesMap = below.ss.maskedNodes
                      /\ StartsWith(maskedText, <<"o">>)
                      /\ Len(maskedNodesMap) = (IF options.maskInlineMath THEN 1 ELSE 0)
             [] OTHER -> maskedText = <<>> /\ maskedNodesMap = <<>>


\* \foo{t$x$\cite{k}}: an unprotected command with an inline math and a
\* \cite in its argument
FooNested == Macro(<<"f", "o", "o">>, <<Braced(<<Str(<<"t">>), MathX, CiteK>>)>>)

\* C25 (as claimed): recursive classification inside unprotected commands.
\* In the argument of \foo, which no rule protects, the \cite has an entry
\* of kind CMD when cite is in maskCommands and the inline math an entry of
\* kind IMATH when maskInlineMath is true; a node with an entry is not in
\* the masked text as literal markup, and the inline math is in the masked
\* text as its token or as its own markup, never left out.
C25_NestedClassification ==
  (Masked /\ Alone(FooNested)) =>
    /\ <<"c", "i", "t", "e">> \in options.maskCommands =>
         /\ EntriesOf(maskedNodesMap, CiteK) /= {}
         /\ ~Contains(maskedText, <<"\\", "c", "i", "t", "e">>)
    /\ IF options.maskInlineMath
       THEN /\ EntriesOf(maskedNodesMap, MathX) /= {}
            /\ ~Contains(maskedText, <<"$", "x", "$">>)
       ELSE Contains(maskedText, <<"$", "x", "$">>)

\* what is observed: the argument is written out by nodesToString, which
\* knows strings, whitespace, comments and commands only; the \cite is
\* literal markup, the inline math is gone, the map is empty
C25_Observed ==
  (mpc = "masked" /\ Alone(FooNested)) =>
    /\ ~maskThrew
    /\ maskedText = <<"\\", "f", "o", "o", "{", "t", "\\", "c", "i", "t", "e", "{", "k", "}", "}">>
    /\ maskedNodesMap = <<>>

\* the children of a block that no rule protects are classified: in
\* \begin{center}t$x$\end{center} the inline math has its entry
C25_BlockChildrenClassified ==
  (Masked /\ options.maskInlineMath
     /\ \E nd \in {NodeAt(curAst, pl) : pl \in TopPlaces(curAst)} :
          /\ Alone(nd)
          /\ nd.type = "environment"
          /\ nd.env = <<"c", "e", "n", "t", "e", "r">>
          /\ ~BlockProtected(options, nd)) =>
    EntriesOf(maskedNodesMap, MathX) /= {}


(***************************************************************************)
(* Claims about arguments and the resolution (under SpecResolve).          *)
(***************************************************************************)
\* \foo[s], the content of the argument being the string s
FooString == Macro(<<"f", "o", "o">>, <<StringArgument(<<"[">>, <<"]">>, <<"s">>)>>)

\* the answer is the masked text as the walker gave it
AnswerIsMasked == mpc = "replaced" /\ translatedText = maskedText

\* C27 (as claimed): string-content arguments. The walker writes the
\* argument of the unprotected \foo[s] as [s] and does not throw; the
\* serializer writes the argument of the protected \cite[s] as [s] when its
\* token is resolved and does not throw.
C27_StringArguments ==
  /\ (mpc = "masked" /\ Alone(FooString)) =>
       /\ ~maskThrew
       /\ maskedText = <<"\\", "f", "o", "o", "[", "s", "]">>
  /\ (AnswerIsMasked /\ Alone(CiteString) /\ Len(maskedNodesMap) = 1) =>
       /\ ~replaceThrew
       /\ Contains(replaced, <<"\\", "c", "i", "t", "e", "[", "s", "]">>)

\* what is observed: the walker throws on \foo[s]; it registers \cite[s]
\* without looking at the argument, and the serializer throws on it
C27_Observed ==
  /\ (mpc = "masked" /\ Alone(FooString)) => maskThrew
  /\ (mpc = "masked" /\ Alone(CiteString) /\ <<"c", "i", "t", "e">> \in options.maskCommands) =>
       /\ ~maskThrew
       /\ maskedNodesMap = <<[id |-> <<"C", "M", "D", "_", "0", "0", "0", "1">>, originalContent |-> CiteString]>>
  /\ (AnswerIsMasked /\ Alone(CiteString) /\ Len(maskedNodesMap) = 1) => replaceThrew

\* both cases happen
C27_WalkerCase == mpc = "masked" /\ Alone(FooString)
C27_SerializerCase == AnswerIsMasked /\ Alone(CiteString) /\ Len(maskedNodesMap) = 1


\* the tokens of an answer whose id is a key of the map
KnownTokens(map, ss) == {i \in 1..Len(ss) : ss[i].tok /\ ss[i].s \in MapKeys(map)}

RECURSIVE SumOver(_, _, _)
\* the sum of f[i] over the i of a finite set
SumOver(f, set, acc) ==
  IF set = {} THEN acc
  ELSE LET i == CHOOSE j \in set : TRUE
       IN  SumOver(f, set \ {i}, acc + f[i])

\* C26: single-pass resolution. The answer is scanned once: each token of
\* the answer whose id is a key is replaced by the LaTeX of its node, that
\* LaTeX stands in the result as it is even when it has the shape of a token
\* itself, and the result differs in length from the answer by exactly one
\* substitution for each token of a known id.
C26_SinglePass ==
  (mpc = "replaced" /\ segs /= <<>> /\ ~replaceThrew) =>
    LET known == KnownTokens(maskedNodesMap, segs)
        latex == [i \in 1..Len(segs) |->
                    IF i \in known THEN nodeToLatex(MapGet(maskedNodesMap, segs[i].s))
                    ELSE SegText(segs[i])]
        gain == [i \in 1..Len(segs) |-> Len(latex[i]) - Len(SegText(segs[i]))]
    IN  /\ replaced = ExpectedOfSegs(maskedNodesMap, segs)
        /\ \A i \in known : Contains(replaced, latex[i])
        /\ Len(replaced) = Len(translatedText) + SumOver(gain, known, 0)

\* the answer holds the token of \cite{<ph id="CMD_0001"/>} twice: each is
\* replaced once, and the token in the argument stays
C26_Witness ==
  /\ mpc = "replaced"
  /\ Alone(CiteToken)
  /\ segs = <<Tok(<<"C", "M", "D", "_", "0", "0", "0", "1">>), Tok(<<"C", "M", "D", "_", "0", "0", "0", "1">>)>>
  /\ replaced = <<"\\", "c", "i", "t", "e", "{", "<", "p", "h", SP, "i", "d", "=", DQ, "C", "M", "D", "_", "0", "0", "0", "1", DQ, "/", ">", "}", "\\", "c", "i", "t", "e", "{", "<", "p", "h", SP, "i", "d", "=", DQ, "C", "M", "D", "_", "0", "0", "0", "1", DQ, "/", ">", "}">>
  /\ TokenIds(replaced) = <<<<"C", "M", "D", "_", "0", "0", "0", "1">>, <<"C", "M", "D", "_", "0", "0", "0", "1">>>>


(***************************************************************************)
(* Claims about the order of registration (under SpecMask).                *)
(***************************************************************************)
RECURSIVE PreOrder(_)
\* the nodes of a node list in pre-order, depth first: a node, then the
\* nodes of its arguments, then those of its content
PreOrder(nodes) ==
  IF nodes = <<>> THEN <<>>
  ELSE LET n == Head(nodes)
           ofArgs == Concat([i \in 1..Len(n.args) |->
                               IF n.args[i].ck = "array" THEN PreOrder(n.args[i].content)
                               ELSE <<>>])
           ofContent == IF n.ck = "array" THEN PreOrder(n.content) ELSE <<>>
       IN  <<n>> \o ofArgs \o ofContent \o PreOrder(Tail(nodes))

\* the nodes of all files of a ProjectAST, file after file
DocumentOrder(ast) == Concat([f \in 1..Len(ast.files) |-> PreOrder(ast.files[f].content)])

RECURSIVE IsSubsequence(_, _)
\* a is b with some elements left out
IsSubsequence(a, b) ==
  IF a = <<>> THEN TRUE
  ELSE IF b = <<>> THEN FALSE
  ELSE IF Head(a) = Head(b) THEN IsSubsequence(Tail(a), Tail(b))
  ELSE IsSubsequence(a, Tail(b))

\* the value of a decimal digit
DigitValue(c) == CHOOSE d \in 0..9 : Digits[d + 1] = c

\* the counter value an id was made from: its last four digits
CounterValueOf(id) ==
  LET n == Len(id)
  IN  1000 * DigitValue(id[n - 3]) + 100 * DigitValue(id[n - 2])
        + 10 * DigitValue(id[n - 1]) + DigitValue(id[n])

\* C28: registration order. After a maskAst call the entries of the map
\* stand in the order in which the walk met their nodes (pre-order, depth
\* first, file after file); of two entries the earlier has the smaller
\* counter value in its id; the tokens of the masked text carry the ids of
\* the entries in the same order; and the counter of the service equals
\* the number of entries.
C28_RegistrationOrder ==
  Masked =>
    LET m == maskedNodesMap
    IN  /\ IsSubsequence([i \in 1..Len(m) |-> m[i].originalContent], DocumentOrder(curAst))
        /\ \A i, j \in 1..Len(m) :
             i < j => CounterValueOf(m[i].id) < CounterValueOf(m[j].id)
        /\ TokenIds(maskedText) = [i \in 1..Len(m) |-> m[i].id]
        /\ session.maskCounter = Len(m)

\* $x$\begin{figure}$q$%d\cite{j}\end{figure}\cite{k} with the block
\* walked and everything in it registered: five entries, those of the
\* block's children between those of its neighbours
C28_Witness ==
  /\ Masked
  /\ Len(curAst.files) = 1
  /\ curAst.files[1].content = <<MathX, FigureFlat, CiteK>>
  /\ [i \in 1..Len(maskedNodesMap) |-> maskedNodesMap[i].originalContent]
       = <<MathX>> \o FigureFlat.content \o <<CiteK>>
  /\ session.maskCounter = 5


(***************************************************************************)
(* Claims about the chunks themselves (under SpecTl).                      *)
(***************************************************************************)
\* C29 (as claimed): no empty chunks. For a text that is not empty no chunk
\* of splitTextIntoChunks is the empty string, and no chunk handed to the
\* translator is.
C29_NoEmptyChunks ==
  (text /= <<>> /\ pc /= "start") =>
    /\ \A i \in 1..Len(chunks) : chunks[i] /= <<>>
    /\ \A k \in 1..Len(submitted) : chunks[submitted[k]] /= <<>>

\* what is observed: the last push of the function tests the current chunk,
\* the pushes inside the loops do not; an empty chunk comes from them, and
\* with a maxChunkSize above 2 the chunk after it is a whole paragraph or
\* sentence of at least maxChunkSize - 1 characters
C29_Observed ==
  pc /= "start" =>
    \A i \in 1..Len(chunks) :
      (chunks[i] = <<>> /\ maxChunkSize > 2) =>
        /\ i < Len(chunks)
        /\ Len(chunks[i + 1]) >= maxChunkSize - 1

\* the empty chunk of "aaa" with maxChunkSize 3 was handed to the translator
C29_EmptyChunkSubmitted ==
  /\ text = <<"a", "a", "a">>
  /\ maxChunkSize = 3
  /\ chunks = <<<<>>, <<"a", "a", "a">>>>
  /\ submitted /= <<>>
  /\ submitted[1] = 1


(***************************************************************************)
(* Claims about the set of processed files (under SpecRerun).              *)
(***************************************************************************)
\* the stages of a file between the start of its masking and its write
FileStagePcs == {"mask", "saveMasked", "translate", "saveTranslated", "resolve", "write"}

\* the paths of the files that are being masked, translated or written
PathsInWork ==
  IF ppc \in FileStagePcs
  THEN {CurAst.files[i].filePath : i \in 1..Len(CurAst.files)}
  ELSE {}

\* the paths whose translated output was written by the loop over the
\* files of a project
WrittenByLoop == {outputs[i].filePath : i \in 1..Len(outputs)} \ {"input"}

\* the file the loop has just given up: the last entry of the trace is the
\* failure of one of its stages
JustFailed ==
  IF trace /= <<>> /\ ~trace[Len(trace)].ok /\ trace[Len(trace)].filePath /= "input"
  THEN {trace[Len(trace)].filePath}
  ELSE {}

\* C30 (as claimed): processed-file set. A path is in processedFiles only
\* if its translated output was written; the file whose processing has just
\* thrown is not in the set; and no file whose path is in the set is being
\* masked, translated or written, in the call that put it there or in a
\* later translate() call on the same service.
C30_ProcessedFileSet ==
  /\ processedFiles \subseteq WrittenByLoop
  /\ JustFailed \cap processedFiles = {}
  /\ PathsInWork \cap processedFiles = {}

\* what is observed: the set is kept by processMultiFileProject alone. What
\* is in it was written, what has just failed is not in it, and the loop
\* over the files of a project takes up no file that is in it, in whatever
\* call it was put there; processSingleFile neither reads the set nor adds
\* to it
C30_Observed ==
  /\ processedFiles \subseteq WrittenByLoop
  /\ JustFailed \cap processedFiles = {}
  /\ ~inputIsFile => PathsInWork \cap processedFiles = {}

\* a second call, for the file a.tex alone, writes the translation of
\* a.tex once more although the first call, for the project, had put
\* a.tex in the set
C30_SingleFileAgain ==
  /\ TranslateCalls = 2
  /\ inputIsFile
  /\ originalAst.files = <<RerunFileA>>
  /\ ProjPaths[1] \in processedFiles
  /\ ppc = "returned"
  /\ Cardinality({i \in 1..Len(trace) : trace[i].stage = "write" /\ trace[i].ok}) >= 2

\* a second call for the project skips the files the first call wrote
C30_ProjectAgainSkips ==
  /\ TranslateCalls = 2
  /\ ~inputIsFile
  /\ Len(originalAst.files) = 2
  /\ processedFiles = {ProjPaths[1], ProjPaths[2]}
  /\ ppc = "returned"
  /\ Len(outputs) = 2
  /\ trace[Len(trace)].stage = "call"

=============================================================================
